---- MODULE Spec2Model ----
(***************************************************************************)
(* A model of DrpLib's allocators (src/DrpLib/Allocators): the arena       *)
(* allocator with its list of big allocations, the recording allocator    *)
(* and the testing allocator, each called through the Allocator handle.   *)
(*                                                                         *)
(* The C functions are operators from a context ("world") and the call's  *)
(* arguments to an outcome: the new world, the returned pointer and what  *)
(* the call did on the way (bytes copied, bytes zeroed, whether the heap  *)
(* refused a request).  The actions apply them to the program's state.    *)
(***************************************************************************)
EXTENDS Integers, Sequences, FiniteSets, TLC

VARIABLES
    w,        \* the ArenaAllocator, with the heap memory it obtained
    live,     \* what the caller holds: the allocations granted and not given back
    last,     \* the last call: its arguments, its result, what it did
    status,   \* "ok", or how the process ended ("segv", "wild", "uaf", "abort")
    ndebug,   \* the build: TRUE when assert() is compiled out (NDEBUG)
    arena_pages, \* the build: the pages of ARENA_PAGE_SIZE bytes in a block
    steps,    \* calls made so far
    sh,       \* a freshly constructed arena given the calls made since the last free_all
    kind,     \* the AllocatorType of the handle the caller uses
    tw,       \* the TestingAllocator (or its recorder alone), with the heap memory it tracks
    tsh,      \* freshly constructed contexts given the calls made since the last free_all
    gone      \* the arena slots given up by reallocs since the last free_all

vars == <<w, live, last, status, ndebug, arena_pages, steps, sh, kind, tw, tsh, gone>>

----------------------------------------------------------------------------
(* Bounds of the model.                                                    *)

\* calls in one run
MaxSteps == 4
\* allocations the caller holds at once
MaxLive == 3
\* arena blocks the heap can hand out
MaxBlocks == 3
\* big allocations the heap can hand out
MaxBigs == 3
\* allocations the heap can hand out to a recording or testing allocator
MaxPtrs == 3
\* calls in one run on a recording or testing allocator
MaxCalls == 3
\* calls in one run through a handle of any type
MaxOps == 3
\* calls in one run of a caller who may misuse a recording or testing allocator
MaxUses == 3

BlockIds == 1..MaxBlocks
BigIds == 1..MaxBigs

----------------------------------------------------------------------------
(* Program constants.                                                      *)

\* size_t is modelled SIZE_BITS wide: arithmetic on sizes is modulo 2^SIZE_BITS
SIZE_BITS == 30
SIZE_MOD == 2^SIZE_BITS

ARENA_PAGE_SIZE == 4096
\* enum {ARENA_SIZE=ARENA_PAGE_SIZE*128}; a build with blocks of another size
\* has another number in the place of 128
ARENA_PAGES == 128
ARENA_SIZE == ARENA_PAGE_SIZE*arena_pages
\* sizeof(void*) and sizeof(size_t) of the arena's header
SIZEOF_PTR == 8
SIZEOF_SIZE_T == 8
ARENA_BUFFER_SIZE == ARENA_SIZE - SIZEOF_PTR - SIZEOF_SIZE_T
\* BIG_ALLOC_THRESH as half of what a block can hold
BIG_ALLOC_THRESH_HalfBuffer == ARENA_BUFFER_SIZE \div 2
\* BIG_ALLOC_THRESH as all that a block can hold
BIG_ALLOC_THRESH_WholeBuffer == ARENA_BUFFER_SIZE

BIG_ALLOC_THRESH == ARENA_SIZE \div 2
\* sizeof(BigAllocation): two links, the size and five words of padding
SIZEOF_BIG == 64

\* the null pointer, as a block or as a list node
NULL == 0
\* &aa->big_allocations, the sentinel of the list of big allocations
SENTINEL == -1

\* the sizes the caller asks for, of a build with blocks of ARENA_PAGES pages
\* and of a build with blocks of one page
Sizes ==
    IF arena_pages = ARENA_PAGES THEN {0, 5, 8, 262136, 262140, 262145, 300000}
    ELSE {200, 2040, 2048, 4000}

----------------------------------------------------------------------------
(* Pointers handed to the caller.                                          *)

NULLPTR == [k |-> "null", id |-> 0, off |-> 0]
\* arena->buff + off of block b
ArenaPtr(b, off) == [k |-> "arena", id |-> b, off |-> off]
\* ba+1 of big allocation n
BigPtr(n) == [k |-> "big", id |-> n, off |-> 0]
\* (BigAllocation*)NULL + 1
WILDPTR == [k |-> "wild", id |-> 0, off |-> 0]

----------------------------------------------------------------------------
(* Memory.                                                                 *)

\* a struct Arena the heap does not hold (never allocated, or freed)
DeadArena == [live |-> FALSE, prev |-> NULL, used |-> 0]
\* a BigAllocation the heap does not hold
\* (hsize is the heap's own record of the size it granted)
DeadBig == [live |-> FALSE, next |-> NULL, prev |-> NULL, size |-> 0, hsize |-> 0]

\* struct ArenaAllocator, zero-initialised, and an empty heap
EmptyArenaAllocator ==
    [arena |-> NULL,
     big_allocations |-> [next |-> NULL, prev |-> NULL],
     blk |-> [b \in BlockIds |-> DeadArena],
     big |-> [n \in BigIds |-> DeadBig]]

FreeBlockIds(x) == {b \in BlockIds : ~x.blk[b].live}
FreeBigIds(x) == {n \in BigIds : ~x.big[n].live}
Lowest(S) == CHOOSE i \in S : \A j \in S : i <= j

\* The outcome of a call.
\*   st: "ok", "segv" (the process died on an invalid access), "wild" (an
\*   invalid access went through), "uaf" (freed memory was used), "abort"
\*   (an assertion failed);
\*   hf: the heap refused a request; oom: the model's heap has no address left.
Out(x, res) ==
    [w |-> x, res |-> res, st |-> "ok", copied |-> 0, zeroed |-> 0,
     hf |-> FALSE, oom |-> FALSE]

\* node->next = v, for the sentinel or a big allocation's node
SetNext(x, node, v) ==
    IF node = SENTINEL
    THEN [x EXCEPT !.big_allocations.next = v]
    ELSE [x EXCEPT !.big[node].next = v]

\* node->prev = v
SetPrev(x, node, v) ==
    IF node = SENTINEL
    THEN [x EXCEPT !.big_allocations.prev = v]
    ELSE [x EXCEPT !.big[node].prev = v]

----------------------------------------------------------------------------
(* The list of big allocations.                                            *)

\* Big_init: link ba in after prev
Big_init(x, prev, ba) ==
    SetNext([x EXCEPT !.big[ba].next = NULL, !.big[ba].prev = prev], prev, ba)

\* What Big_alloc and Big_zalloc do when the heap returns NULL: Big_init and
\* the store of the size go through the null pointer unchecked.  The process
\* dies ("segv"), or, where address 0 is writable (wasm), the stores land
\* there, prev->next becomes &((BigAllocation*)NULL)->node, which is NULL,
\* and the caller gets NULL+1 ("wild").
Big_null_deref(x, prev, e) ==
    IF e.ub = "segv"
    THEN [Out(x, NULLPTR) EXCEPT !.st = "segv", !.hf = TRUE]
    ELSE [Out(SetNext(x, prev, NULL), WILDPTR) EXCEPT !.st = "wild", !.hf = TRUE]

\* Big_alloc
Big_alloc(x, prev, size, e) ==
    IF ~e.ok THEN Big_null_deref(x, prev, e)
    ELSE IF FreeBigIds(x) = {} THEN [Out(x, NULLPTR) EXCEPT !.oom = TRUE]
    ELSE LET ba == Lowest(FreeBigIds(x))
             x1 == [x EXCEPT !.big[ba] =
                       [DeadBig EXCEPT !.live = TRUE, !.hsize = size + SIZEOF_BIG]]
             x2 == Big_init(x1, prev, ba)
         IN Out([x2 EXCEPT !.big[ba].size = size], BigPtr(ba))

\* Big_zalloc
Big_zalloc(x, prev, size, e) ==
    IF ~e.ok THEN Big_null_deref(x, prev, e)
    ELSE IF FreeBigIds(x) = {} THEN [Out(x, NULLPTR) EXCEPT !.oom = TRUE]
    ELSE LET ba == Lowest(FreeBigIds(x))
             x1 == [x EXCEPT !.big[ba] =
                       [DeadBig EXCEPT !.live = TRUE, !.hsize = size + SIZEOF_BIG]]
             x2 == Big_init(x1, prev, ba)
         IN [Out([x2 EXCEPT !.big[ba].size = size], BigPtr(ba))
                EXCEPT !.zeroed = size]

\* Big_realloc that leaves the links of the neighbours on the old address
Big_realloc_NoRelink(x, a, old, size, e) ==
    LET ba == a.id
    IN IF ~e.ok THEN [Out(x, NULLPTR) EXCEPT !.hf = TRUE]
       ELSE IF e.moved /\ FreeBigIds(x) = {} THEN [Out(x, NULLPTR) EXCEPT !.oom = TRUE]
       ELSE LET nb == IF e.moved THEN Lowest(FreeBigIds(x)) ELSE ba
                x1 == IF e.moved
                      THEN [x EXCEPT !.big[nb] = x.big[ba], !.big[ba] = DeadBig]
                      ELSE x
            IN Out([x1 EXCEPT !.big[nb].hsize = size + SIZEOF_BIG], BigPtr(nb))

\* Big_realloc: the heap resizes the allocation, in place or (e.moved) at a
\* new address with the old contents, header included, and the old one freed
Big_realloc(x, a, old, size, e) ==
    LET ba == a.id
        prev == x.big[ba].prev
        next == x.big[ba].next
    IN IF ~e.ok THEN [Out(x, NULLPTR) EXCEPT !.hf = TRUE]
       ELSE IF e.moved /\ FreeBigIds(x) = {} THEN [Out(x, NULLPTR) EXCEPT !.oom = TRUE]
       ELSE LET nb == IF e.moved THEN Lowest(FreeBigIds(x)) ELSE ba
                x1 == IF e.moved
                      THEN [x EXCEPT !.big[nb] = x.big[ba], !.big[ba] = DeadBig]
                      ELSE x
                x2 == [x1 EXCEPT !.big[nb].hsize = size + SIZEOF_BIG]
                x3 == IF prev # NULL THEN SetNext(x2, prev, nb) ELSE x2
                x4 == IF next # NULL THEN SetPrev(x3, next, nb) ELSE x3
            IN Out(x4, BigPtr(nb))

\* Big_free that releases the allocation and leaves the links of its
\* neighbours as they are
Big_free_NoUnlink(x, a, size) ==
    IF a = NULLPTR THEN x
    ELSE [x EXCEPT !.big[a.id] = DeadBig]

\* Big_free
Big_free(x, a, size) ==
    IF a = NULLPTR THEN x
    ELSE LET ba == a.id
             prev == x.big[ba].prev
             next == x.big[ba].next
             x1 == [x EXCEPT !.big[ba] = DeadBig]
             x2 == IF prev # NULL THEN SetNext(x1, prev, next) ELSE x1
         IN IF next # NULL THEN SetPrev(x2, next, prev) ELSE x2

----------------------------------------------------------------------------
(* The arena.                                                              *)

\* ArenaAllocator_round_size_up adding 8 - remainder whether or not there is a
\* remainder
ArenaAllocator_round_size_up_AlwaysAdds(size) ==
    LET remainder == size % 8
    IN (size + 8 - remainder) % SIZE_MOD

\* ArenaAllocator_round_size_up returning the size as it is
ArenaAllocator_round_size_up_AsIs(size) == size

\* ArenaAllocator_round_size_up
ArenaAllocator_round_size_up(size) ==
    LET remainder == size % 8
    IN IF remainder # 0 THEN (size + 8 - remainder) % SIZE_MOD ELSE size

\* ArenaAllocator_alloc_arena without the store arena->prev = aa->arena
ArenaAllocator_alloc_arena_NoPrev(x, e) ==
    IF ~e.ok THEN [w |-> x, rc |-> 1, oom |-> FALSE]
    ELSE IF FreeBlockIds(x) = {} THEN [w |-> x, rc |-> 1, oom |-> TRUE]
    ELSE LET arena == Lowest(FreeBlockIds(x))
         IN [w |-> [x EXCEPT !.blk[arena] =
                        [live |-> TRUE, prev |-> NULL, used |-> 0],
                      !.arena = arena],
             rc |-> 0, oom |-> FALSE]

\* ArenaAllocator_alloc_arena: rc is the int it returns
ArenaAllocator_alloc_arena(x, e) ==
    IF ~e.ok THEN [w |-> x, rc |-> 1, oom |-> FALSE]
    ELSE IF FreeBlockIds(x) = {} THEN [w |-> x, rc |-> 1, oom |-> TRUE]
    ELSE LET arena == Lowest(FreeBlockIds(x))
         IN [w |-> [x EXCEPT !.blk[arena] =
                        [live |-> TRUE, prev |-> x.arena, used |-> 0],
                      !.arena = arena],
             rc |-> 0, oom |-> FALSE]

\* ArenaBump taking a new block as soon as the request leaves none of the
\* current one (size >= remainder)
ArenaBump_NewBlockWhenExact(x, size, e) ==
    LET needs == IF x.arena = NULL THEN TRUE
                 ELSE size >= (ARENA_BUFFER_SIZE - x.blk[x.arena].used) % SIZE_MOD
        r == IF needs THEN ArenaAllocator_alloc_arena(x, e)
             ELSE [w |-> x, rc |-> 0, oom |-> FALSE]
    IN IF r.rc # 0
       THEN [Out(x, NULLPTR) EXCEPT !.hf = ~r.oom, !.oom = r.oom]
       ELSE LET arena == r.w.arena
                used == r.w.blk[arena].used
            IN Out([r.w EXCEPT !.blk[arena].used = (used + size) % SIZE_MOD],
                   ArenaPtr(arena, used))

\* the bump allocation shared by ArenaAllocator_alloc and ArenaAllocator_zalloc,
\* for a rounded size that is no big allocation
ArenaBump(x, size, e) ==
    LET needs == IF x.arena = NULL THEN TRUE
                 ELSE size > (ARENA_BUFFER_SIZE - x.blk[x.arena].used) % SIZE_MOD
        r == IF needs THEN ArenaAllocator_alloc_arena(x, e)
             ELSE [w |-> x, rc |-> 0, oom |-> FALSE]
    IN IF r.rc # 0
       THEN [Out(x, NULLPTR) EXCEPT !.hf = ~r.oom, !.oom = r.oom]
       ELSE LET arena == r.w.arena
                used == r.w.blk[arena].used
            IN Out([r.w EXCEPT !.blk[arena].used = (used + size) % SIZE_MOD],
                   ArenaPtr(arena, used))

\* ArenaAllocator_alloc
ArenaAllocator_alloc(x, sz, e) ==
    LET size == ArenaAllocator_round_size_up(sz)
    IN IF size > BIG_ALLOC_THRESH
       THEN Big_alloc(x, SENTINEL, size, e)
       ELSE ArenaBump(x, size, e)

\* ArenaAllocator_zalloc
ArenaAllocator_zalloc(x, sz, e) ==
    LET size == ArenaAllocator_round_size_up(sz)
    IN IF size > BIG_ALLOC_THRESH
       THEN Big_zalloc(x, SENTINEL, size, e)
       ELSE LET o == ArenaBump(x, size, e)
            IN IF o.res = NULLPTR THEN o ELSE [o EXCEPT !.zeroed = size]

\* AtFrontier comparing ptr itself, without the size, to the frontier
AtFrontier_WithoutSize(x, ptr, size) ==
    /\ ptr.k = "arena"
    /\ ptr.id = x.arena
    /\ ptr.off = x.blk[x.arena].used

\* (const char*)ptr+size == arena->buff+arena->used
AtFrontier(x, ptr, size) ==
    /\ ptr.k = "arena"
    /\ ptr.id = x.arena
    /\ ptr.off + size = x.blk[x.arena].used

\* ArenaAllocator_free that never takes the frontier back
ArenaAllocator_free_NoReclaim(x, ptr, sz, e) ==
    IF ptr = NULLPTR THEN Out(x, NULLPTR)
    ELSE IF sz = 0 THEN Out(x, NULLPTR)
    ELSE LET size == ArenaAllocator_round_size_up(sz)
         IN IF size > BIG_ALLOC_THRESH THEN Out(Big_free(x, ptr, size), NULLPTR)
            ELSE Out(x, NULLPTR)

\* ArenaAllocator_free
ArenaAllocator_free(x, ptr, sz, e) ==
    IF ptr = NULLPTR THEN Out(x, NULLPTR)
    ELSE IF sz = 0 THEN Out(x, NULLPTR)
    ELSE LET size == ArenaAllocator_round_size_up(sz)
         IN IF size > BIG_ALLOC_THRESH THEN Out(Big_free(x, ptr, size), NULLPTR)
            ELSE IF x.arena = NULL
            THEN [Out(x, NULLPTR) EXCEPT !.st = IF e.ndebug THEN "segv" ELSE "abort"]
            ELSE IF AtFrontier(x, ptr, size)
            THEN Out([x EXCEPT !.blk[x.arena].used = (@ - size) % SIZE_MOD], NULLPTR)
            ELSE Out(x, NULLPTR)

\* ArenaReallocRounded advancing used, when it takes fresh space, by the old
\* size instead of the new one
ArenaReallocRounded_BumpsOldSize(x, ptr, old_size, new_size, e) ==
    IF old_size = new_size THEN Out(x, ptr)
    ELSE IF old_size > BIG_ALLOC_THRESH
    THEN IF new_size > BIG_ALLOC_THRESH
         THEN Big_realloc(x, ptr, old_size, new_size, e)
         ELSE \* from a big allocation to an arena allocation
              LET o == ArenaAllocator_alloc(x, new_size, e)
              IN IF o.res = NULLPTR THEN o
                 ELSE [o EXCEPT !.w = Big_free(o.w, ptr, old_size),
                                !.copied = new_size]
    ELSE IF new_size > BIG_ALLOC_THRESH
    THEN \* from an arena allocation to a big allocation
         LET o == Big_alloc(x, SENTINEL, new_size, e)
         IN IF o.res = NULLPTR \/ o.st # "ok" THEN o
            ELSE LET f == ArenaAllocator_free(o.w, ptr, old_size, e)
                 IN [o EXCEPT !.w = f.w, !.st = f.st, !.copied = old_size]
    ELSE IF x.arena = NULL
    THEN [Out(x, NULLPTR) EXCEPT !.st = IF e.ndebug THEN "segv" ELSE "abort"]
    ELSE LET arena == x.arena
             used == x.blk[arena].used
             new_used == (used - old_size + new_size) % SIZE_MOD
         IN IF AtFrontier(x, ptr, old_size) /\ new_used <= ARENA_BUFFER_SIZE
            THEN \* fits, in-place realloc
                 Out([x EXCEPT !.blk[arena].used = new_used], ptr)
            ELSE LET needs == (ARENA_BUFFER_SIZE - used) % SIZE_MOD < new_size
                     r == IF needs THEN ArenaAllocator_alloc_arena(x, e)
                          ELSE [w |-> x, rc |-> 0, oom |-> FALSE]
                 IN IF r.rc # 0
                    THEN [Out(x, NULLPTR) EXCEPT !.hf = ~r.oom, !.oom = r.oom]
                    ELSE LET a2 == r.w.arena
                             u2 == r.w.blk[a2].used
                         IN [Out([r.w EXCEPT !.blk[a2].used = (u2 + old_size) % SIZE_MOD],
                                 ArenaPtr(a2, u2))
                               EXCEPT !.copied = IF old_size < new_size
                                                 THEN old_size ELSE new_size]

\* ArenaAllocator_realloc, from the rounding of the two sizes on: both sizes
\* non-zero
ArenaReallocRounded(x, ptr, old_size, new_size, e) ==
    IF old_size = new_size THEN Out(x, ptr)
    ELSE IF old_size > BIG_ALLOC_THRESH
    THEN IF new_size > BIG_ALLOC_THRESH
         THEN Big_realloc(x, ptr, old_size, new_size, e)
         ELSE \* from a big allocation to an arena allocation
              LET o == ArenaAllocator_alloc(x, new_size, e)
              IN IF o.res = NULLPTR THEN o
                 ELSE [o EXCEPT !.w = Big_free(o.w, ptr, old_size),
                                !.copied = new_size]
    ELSE IF new_size > BIG_ALLOC_THRESH
    THEN \* from an arena allocation to a big allocation
         LET o == Big_alloc(x, SENTINEL, new_size, e)
         IN IF o.res = NULLPTR \/ o.st # "ok" THEN o
            ELSE LET f == ArenaAllocator_free(o.w, ptr, old_size, e)
                 IN [o EXCEPT !.w = f.w, !.st = f.st, !.copied = old_size]
    ELSE IF x.arena = NULL
    THEN [Out(x, NULLPTR) EXCEPT !.st = IF e.ndebug THEN "segv" ELSE "abort"]
    ELSE LET arena == x.arena
             used == x.blk[arena].used
             new_used == (used - old_size + new_size) % SIZE_MOD
         IN IF AtFrontier(x, ptr, old_size) /\ new_used <= ARENA_BUFFER_SIZE
            THEN \* fits, in-place realloc
                 Out([x EXCEPT !.blk[arena].used = new_used], ptr)
            ELSE LET needs == (ARENA_BUFFER_SIZE - used) % SIZE_MOD < new_size
                     r == IF needs THEN ArenaAllocator_alloc_arena(x, e)
                          ELSE [w |-> x, rc |-> 0, oom |-> FALSE]
                 IN IF r.rc # 0
                    THEN [Out(x, NULLPTR) EXCEPT !.hf = ~r.oom, !.oom = r.oom]
                    ELSE LET a2 == r.w.arena
                             u2 == r.w.blk[a2].used
                         IN [Out([r.w EXCEPT !.blk[a2].used = (u2 + new_size) % SIZE_MOD],
                                 ArenaPtr(a2, u2))
                               EXCEPT !.copied = IF old_size < new_size
                                                 THEN old_size ELSE new_size]

\* ArenaAllocator_realloc
ArenaAllocator_realloc(x, ptr, old_size, new_size, e) ==
    IF old_size = 0 /\ new_size = 0 THEN Out(x, ptr)
    ELSE IF old_size = 0
    THEN IF ptr # NULLPTR /\ ~e.ndebug
         THEN [Out(x, NULLPTR) EXCEPT !.st = "abort"]
         ELSE ArenaAllocator_alloc(x, new_size, e)
    ELSE IF new_size = 0
    THEN ArenaAllocator_free(x, ptr, old_size, e)
    ELSE ArenaReallocRounded(x, ptr, ArenaAllocator_round_size_up(old_size),
                             ArenaAllocator_round_size_up(new_size), e)

\* the blocks from aa->arena back along prev, at most n of them
RECURSIVE ArenaChainFrom(_, _, _)
ArenaChainFrom(x, arena, n) ==
    IF arena = NULL \/ n = 0 THEN <<>>
    ELSE <<arena>> \o ArenaChainFrom(x, x.blk[arena].prev, n - 1)

ArenaChain(x) == ArenaChainFrom(x, x.arena, MaxBlocks + 1)

\* the nodes from node on along next, at most n of them
RECURSIVE BigListFrom(_, _, _)
BigListFrom(x, node, n) ==
    IF node = NULL \/ n = 0 THEN <<>>
    ELSE <<node>> \o BigListFrom(x, x.big[node].next, n - 1)

BigList(x) == BigListFrom(x, x.big_allocations.next, MaxBigs + 1)

Range(s) == {s[i] : i \in DOMAIN s}

\* ArenaResetContext without the store aa->arena = NULL
ArenaResetContext_KeepsArena(x) ==
    [x EXCEPT !.big_allocations = [next |-> NULL, prev |-> NULL]]

\* the three stores that end ArenaAllocator_free_all
ArenaResetContext(x) ==
    [x EXCEPT !.arena = NULL,
              !.big_allocations = [next |-> NULL, prev |-> NULL]]

\* ArenaAllocator_free_all
ArenaAllocator_free_all(x, e) ==
    LET x1 == [x EXCEPT !.blk = [b \in BlockIds |->
                   IF b \in Range(ArenaChain(x)) THEN DeadArena ELSE x.blk[b]]]
        bas == Range(BigList(x1))
        x2 == [x1 EXCEPT !.big = [n \in BigIds |->
                   IF n \in bas THEN DeadBig ELSE x1.big[n]]]
    IN IF x.big_allocations.prev # NULL /\ ~e.ndebug
       THEN [Out(x1, NULLPTR) EXCEPT !.st = "abort"]
       ELSE IF \E n \in bas : ~x1.big[n].live
       THEN \* the walk reads, and frees again, memory already freed
            [Out(x1, NULLPTR) EXCEPT !.st = "uaf"]
       ELSE Out(ArenaResetContext(x2), NULLPTR)

RECURSIVE SumUsed(_, _)
SumUsed(x, chain) ==
    IF chain = <<>> THEN 0
    ELSE x.blk[Head(chain)].used + SumUsed(x, Tail(chain))

RECURSIVE SumBig(_, _)
SumBig(x, nodes) ==
    IF nodes = <<>> THEN 0
    ELSE x.big[Head(nodes)].size + SumBig(x, Tail(nodes))

\* ArenaAllocator_stats
ArenaAllocator_stats(x) ==
    [used |-> SumUsed(x, ArenaChain(x)),
     capacity |-> Len(ArenaChain(x)) * ARENA_BUFFER_SIZE,
     big_used |-> SumBig(x, BigList(x)),
     big_count |-> Len(BigList(x)),
     arena_count |-> Len(ArenaChain(x))]

----------------------------------------------------------------------------
(* The recording allocator and the testing allocator.                      *)
(*                                                                         *)
(* A context is a TestingAllocator: fail_at, nallocs, the lock and the     *)
(* RecordingAllocator (a bare recording allocator is its recorder field,   *)
(* the rest unused), with the heap memory it tracks.  The two arrays of    *)
(* the ledger are the sequences of the slots written so far, slot i of the *)
(* C arrays being element i+1; the slots above them, up to capacity, hold  *)
(* what the heap left there and are never read.                            *)

INITIAL_CAPACITY == 32

\* the addresses the heap can give the recorder's allocations
RecPtrs == 1..MaxPtrs

\* the sizes asked of a recording or testing allocator
RecSizes == {0, 1, 2}

\* the values of fail_at
FailAts == {0, 2, -2}

\* a RecordingAllocator from calloc, in a zero-initialised TestingAllocator,
\* and an empty heap
EmptyRecorder ==
    [allocations |-> <<>>, allocation_sizes |-> <<>>, count |-> 0, capacity |-> 0]

NewTestingAllocator(fail_at) ==
    [fail_at |-> fail_at, nallocs |-> 0, lock |-> FALSE,
     recorder |-> EmptyRecorder,
     heap |-> [p \in RecPtrs |-> [live |-> FALSE, size |-> 0]]]

FreeRecPtrs(x) == {p \in RecPtrs : ~x.heap[p].live}

\* The outcome of a call on a recording or testing allocator.
\*   res: the pointer returned (NULL or an address);
\*   st, hf, oom: as for the arena.
ROut(x, res) == [w |-> x, res |-> res, st |-> "ok", hf |-> FALSE, oom |-> FALSE]

\* malloc(size) / calloc(1, size): NULL when the heap refuses, and, for
\* size 0, NULL or an address as the implementation has it
HeapAlloc(x, size, e) ==
    IF ~e.ok THEN [ROut(x, NULL) EXCEPT !.hf = TRUE]
    ELSE IF size = 0 /\ e.zero_null THEN ROut(x, NULL)
    ELSE IF FreeRecPtrs(x) = {} THEN [ROut(x, NULL) EXCEPT !.oom = TRUE]
    ELSE LET p == Lowest(FreeRecPtrs(x))
         IN ROut([x EXCEPT !.heap[p] = [live |-> TRUE, size |-> size]], p)

\* free(data) of a non-null pointer
HeapFree(x, data) == [x EXCEPT !.heap[data] = [live |-> FALSE, size |-> 0]]

\* sane_realloc(data, orig_size, size), which is realloc(data, size)
HeapRealloc(x, data, size, e) ==
    IF data = NULL THEN HeapAlloc(x, size, e)
    ELSE IF ~x.heap[data].live THEN [ROut(x, NULL) EXCEPT !.st = "uaf"]
    ELSE IF ~e.ok THEN [ROut(x, NULL) EXCEPT !.hf = TRUE]
    ELSE IF size = 0 /\ e.zero_null THEN ROut(HeapFree(x, data), NULL)
    ELSE IF ~e.moved THEN ROut([x EXCEPT !.heap[data].size = size], data)
    ELSE IF FreeRecPtrs(x) = {} THEN [ROut(x, NULL) EXCEPT !.oom = TRUE]
    ELSE LET p == Lowest(FreeRecPtrs(x))
         IN ROut([HeapFree(x, data) EXCEPT !.heap[p] = [live |-> TRUE, size |-> size]], p)

\* recording_ensure_capacity; bad: the heap refused the ledger's storage, and
\* the arrays are now null pointers
recording_ensure_capacity(r, e) ==
    IF r.count < r.capacity THEN [r |-> r, bad |-> FALSE]
    ELSE IF r.capacity = 0
    THEN [r |-> [r EXCEPT !.capacity = INITIAL_CAPACITY,
                          !.allocations = <<>>,
                          !.allocation_sizes = <<>>],
          bad |-> ~e.lok]
    ELSE LET old_cap == r.capacity
             new_cap == old_cap * 2
         IN [r |-> [r EXCEPT !.capacity = new_cap], bad |-> ~e.lok]

\* a[index] = v, for index a slot written before or the first one above them
Store(a, index, v) ==
    IF index < Len(a) THEN [a EXCEPT ![index + 1] = v] ELSE Append(a, v)

\* recording_ensure_capacity, then the new entry (result, size) at index count++
RecordEntry(x, result, size, e) ==
    LET c == recording_ensure_capacity(x.recorder, e)
        index == c.r.count
    IN IF c.bad
       THEN \* the stores go through the null arrays
            [ROut(x, result) EXCEPT !.st = e.ub, !.hf = TRUE]
       ELSE ROut([x EXCEPT !.recorder =
                      [c.r EXCEPT !.count = index + 1,
                                  !.allocations = Store(@, index, result),
                                  !.allocation_sizes = Store(@, index, size)]],
                 result)

\* recording_alloc
recording_alloc(x, size, e) ==
    LET m == HeapAlloc(x, size, e)
    IN IF m.res = NULL THEN m ELSE RecordEntry(m.w, m.res, size, e)

\* recording_zalloc
recording_zalloc(x, size, e) ==
    LET m == HeapAlloc(x, size, e)
    IN IF m.res = NULL THEN m ELSE RecordEntry(m.w, m.res, size, e)

\* the slots a reverse scan of the ledger finds holding data
SlotsOf(r, data) == {i \in 1..r.count : r.allocations[i] = data}
Highest(S) == CHOOSE i \in S : \A j \in S : i >= j

\* while(r->count && r->allocation_sizes[r->count-1] == 0) r->count--;
RECURSIVE TrimCount(_, _)
TrimCount(sizes, count) ==
    IF count > 0 /\ sizes[count] = 0 THEN TrimCount(sizes, count - 1) ELSE count

\* the slot is nulled and the trailing slots of size 0 are dropped
VacateSlot(r, i) ==
    LET r1 == [r EXCEPT !.allocations[i] = NULL, !.allocation_sizes[i] = 0]
    IN [r1 EXCEPT !.count = TrimCount(r1.allocation_sizes, r1.count)]

\* recording_free with the size compared after the allocation was released
\* and its slot vacated
recording_free_ChecksAfter(x, data, size, e) ==
    IF data = NULL THEN ROut(x, NULL)
    ELSE IF SlotsOf(x.recorder, data) = {}
    THEN [ROut(x, NULL) EXCEPT !.st = IF e.ndebug THEN "ok" ELSE "abort"]
    ELSE LET i == Highest(SlotsOf(x.recorder, data))
             freed == [HeapFree(x, data) EXCEPT !.recorder = VacateSlot(x.recorder, i)]
         IN IF ~x.heap[data].live THEN [ROut(x, NULL) EXCEPT !.st = "uaf"]
            ELSE IF size # x.recorder.allocation_sizes[i] /\ ~e.ndebug
            THEN [ROut(freed, NULL) EXCEPT !.st = "abort"]
            ELSE ROut(freed, NULL)

\* recording_free releasing the allocation and leaving its slot as it is
recording_free_KeepsSlot(x, data, size, e) ==
    IF data = NULL THEN ROut(x, NULL)
    ELSE IF SlotsOf(x.recorder, data) = {}
    THEN [ROut(x, NULL) EXCEPT !.st = IF e.ndebug THEN "ok" ELSE "abort"]
    ELSE LET i == Highest(SlotsOf(x.recorder, data))
         IN IF size # x.recorder.allocation_sizes[i] /\ ~e.ndebug
            THEN [ROut(x, NULL) EXCEPT !.st = "abort"]
            ELSE IF ~x.heap[data].live THEN [ROut(x, NULL) EXCEPT !.st = "uaf"]
            ELSE ROut(HeapFree(x, data), NULL)

\* recording_free
recording_free(x, data, size, e) ==
    IF data = NULL THEN ROut(x, NULL)
    ELSE IF SlotsOf(x.recorder, data) = {}
    THEN \* "Freeing pointer not tracked by this allocator."
         [ROut(x, NULL) EXCEPT !.st = IF e.ndebug THEN "ok" ELSE "abort"]
    ELSE LET i == Highest(SlotsOf(x.recorder, data))
         IN IF size # x.recorder.allocation_sizes[i] /\ ~e.ndebug
            THEN \* "Freeing with the wrong size"
                 [ROut(x, NULL) EXCEPT !.st = "abort"]
            ELSE IF ~x.heap[data].live THEN [ROut(x, NULL) EXCEPT !.st = "uaf"]
            ELSE ROut([HeapFree(x, data) EXCEPT !.recorder = VacateSlot(x.recorder, i)],
                      NULL)

\* recording_free_all without the store r->count = 0
recording_free_all_KeepsCount(x, e) ==
    LET r == x.recorder
        tracked == {i \in 1..r.count : r.allocations[i] # NULL}
    IN ROut([x EXCEPT !.heap = [p \in RecPtrs |->
                         IF \E i \in tracked : r.allocations[i] = p
                         THEN [live |-> FALSE, size |-> 0] ELSE x.heap[p]]],
            NULL)

\* recording_free_all
recording_free_all(x, e) ==
    LET r == x.recorder
        tracked == {i \in 1..r.count : r.allocations[i] # NULL}
    IN IF \/ \E i \in tracked : ~x.heap[r.allocations[i]].live
          \/ \E i, j \in tracked : i # j /\ r.allocations[i] = r.allocations[j]
       THEN \* free of memory already freed
            [ROut(x, NULL) EXCEPT !.st = "uaf"]
       ELSE ROut([x EXCEPT !.heap = [p \in RecPtrs |->
                                IF \E i \in tracked : r.allocations[i] = p
                                THEN [live |-> FALSE, size |-> 0] ELSE x.heap[p]],
                           !.recorder.count = 0],
                 NULL)

\* recording_realloc from Lrealloc on
RecordingLrealloc(x, data, new_size, e) ==
    LET m == HeapRealloc(x, data, new_size, e)
    IN IF m.st # "ok" \/ m.oom THEN m
       ELSE [RecordEntry(m.w, m.res, new_size, e) EXCEPT !.hf = @ \/ m.hf]

\* recording_realloc leaving the slot of data as it is
recording_realloc_KeepsSlot(x, data, orig_size, new_size, e) ==
    IF data = NULL THEN RecordingLrealloc(x, data, new_size, e)
    ELSE IF SlotsOf(x.recorder, data) = {}
    THEN IF e.ndebug THEN RecordingLrealloc(x, data, new_size, e)
         ELSE [ROut(x, NULL) EXCEPT !.st = "abort"]
    ELSE LET i == Highest(SlotsOf(x.recorder, data))
         IN IF orig_size # x.recorder.allocation_sizes[i] /\ ~e.ndebug
            THEN [ROut(x, NULL) EXCEPT !.st = "abort"]
            ELSE RecordingLrealloc(x, data, new_size, e)

\* recording_realloc
recording_realloc(x, data, orig_size, new_size, e) ==
    IF data = NULL THEN RecordingLrealloc(x, data, new_size, e)
    ELSE IF SlotsOf(x.recorder, data) = {}
    THEN \* "Reallocing an unknown pointer"
         IF e.ndebug THEN RecordingLrealloc(x, data, new_size, e)
         ELSE [ROut(x, NULL) EXCEPT !.st = "abort"]
    ELSE LET i == Highest(SlotsOf(x.recorder, data))
         IN IF orig_size # x.recorder.allocation_sizes[i] /\ ~e.ndebug
            THEN [ROut(x, NULL) EXCEPT !.st = "abort"]
            ELSE RecordingLrealloc([x EXCEPT !.recorder = VacateSlot(x.recorder, i)],
                                   data, new_size, e)

\* the counter goes up by one, and the call is to fail
\*   if(ta->fail_at < 0){ if(++ta->nallocs >= -ta->fail_at) goto done; }
\*   else { if(++ta->nallocs == ta->fail_at) goto done; }
Counted(x) == [x EXCEPT !.nallocs = @ + 1]

\* the test for fail_at < 0 (every call from the N-th on) used for fail_at > 0 too
Injected_FromNOn(x) ==
    IF x.fail_at < 0 THEN Counted(x).nallocs >= -x.fail_at
    ELSE x.fail_at # 0 /\ Counted(x).nallocs >= x.fail_at

\* the test for fail_at > 0 (the N-th call only) used for fail_at < 0 too
Injected_OnlyNth(x) ==
    IF x.fail_at < 0 THEN Counted(x).nallocs = -x.fail_at
    ELSE Counted(x).nallocs = x.fail_at

Injected(x) ==
    IF x.fail_at < 0 THEN Counted(x).nallocs >= -x.fail_at
    ELSE Counted(x).nallocs = x.fail_at

\* testing_alloc (the lock is taken and released within the call)
testing_alloc(x, size, e) ==
    IF Injected(x) THEN ROut(Counted(x), NULL)
    ELSE recording_alloc(Counted(x), size, e)

\* testing_zalloc
testing_zalloc(x, size, e) ==
    IF Injected(x) THEN ROut(Counted(x), NULL)
    ELSE recording_zalloc(Counted(x), size, e)

\* testing_free
testing_free(x, data, size, e) == recording_free(x, data, size, e)

\* testing_free_all
testing_free_all(x, e) == recording_free_all(x, e)

\* testing_realloc counting every call, whatever the two sizes
testing_realloc_AlwaysCounts(x, data, orig_size, new_size, e) ==
    IF Injected(x) THEN ROut(Counted(x), NULL)
    ELSE recording_realloc(Counted(x), data, orig_size, new_size, e)

\* testing_realloc
testing_realloc(x, data, orig_size, new_size, e) ==
    IF new_size > orig_size
    THEN IF Injected(x) THEN ROut(Counted(x), NULL)
         ELSE recording_realloc(Counted(x), data, orig_size, new_size, e)
    ELSE recording_realloc(x, data, orig_size, new_size, e)

\* recording_cleanup: free(NULL) does nothing, and the memset leaves an empty
\* recorder; the allocations the ledger held are not touched
recording_cleanup(x, e) == ROut([x EXCEPT !.recorder = EmptyRecorder], NULL)

\* recording_assert_all_freed, built without HEAVY_RECORDING:
\*   assert(r->allocation_sizes[i] == 0) for each i < count
recording_assert_all_freed(x, e) ==
    IF ~e.ndebug /\ \E i \in 1..x.recorder.count : x.recorder.allocation_sizes[i] # 0
    THEN [ROut(x, NULL) EXCEPT !.st = "abort"]
    ELSE ROut(x, NULL)

\* A twin context: its world, how its process stands, the result of its last call.
NewTwin(x) == [w |-> x, st |-> "ok", res |-> NULL]

\* the twins before any free_all
NoTwins ==
    [reset |-> FALSE, zero |-> NewTwin(NewTestingAllocator(0)),
     kept |-> NewTwin(NewTestingAllocator(0))]

----------------------------------------------------------------------------
(* The program: a caller using one arena through its Allocator handle.     *)

\* what the environment decides in a call: whether the heap grants the
\* request, whether realloc moves the allocation, what an invalid access does
\* (moved is read only when the heap grants, ub only when it refuses)
Envs ==
    {[ok |-> TRUE, moved |-> m, ub |-> "segv", ndebug |-> ndebug] : m \in BOOLEAN}
    \cup {[ok |-> FALSE, moved |-> FALSE, ub |-> u, ndebug |-> ndebug] :
             u \in {"segv", "wild"}}

\* a call that asks nothing of the heap
NoEnv == [ok |-> TRUE, moved |-> FALSE, ub |-> "segv", ndebug |-> ndebug]

\* what a call found: the current block, its used, the number of blocks
Found(x) ==
    [arena |-> x.arena,
     used |-> IF x.arena = NULL THEN 0 ELSE x.blk[x.arena].used,
     arena_count |-> Len(ArenaChain(x))]

NoCall ==
    [op |-> "init", ptr |-> NULLPTR, size |-> 0, nsize |-> 0, res |-> NULLPTR,
     hf |-> FALSE, copied |-> 0, zeroed |-> 0, lifo |-> FALSE,
     pre |-> Found(EmptyArenaAllocator)]

Call(op, ptr, size, nsize, o) ==
    [op |-> op, ptr |-> ptr, size |-> size, nsize |-> nsize, res |-> o.res,
     hf |-> o.hf, copied |-> o.copied, zeroed |-> o.zeroed, lifo |-> FALSE,
     pre |-> Found(w)]

\* a freshly constructed arena; reset tells that a free_all, not the
\* construction, is where the comparison starts
Fresh(reset) ==
    [w |-> EmptyArenaAllocator, res |-> NULLPTR, st |-> "ok", reset |-> reset]

\* the fresh arena after the same call
Twin(so) == [w |-> so.w, res |-> so.res, st |-> so.st, reset |-> sh.reset]

\* call c freed the allocation at the frontier of the current block
FreedFrontier(c) ==
    /\ c.op = "free"
    /\ c.size > 0
    /\ c.ptr.k = "arena"
    /\ c.ptr.id = c.pre.arena
    /\ c.ptr.off + ArenaAllocator_round_size_up(c.size) = c.pre.used

\* an allocation of size bytes comes right after the free of a frontier
\* allocation at least as large
AfterLifoFree(size) == FreedFrontier(last) /\ size <= last.size

Init ==
    /\ w = EmptyArenaAllocator
    /\ live = {}
    /\ last = NoCall
    /\ status = "ok"
    /\ ndebug \in BOOLEAN
    /\ arena_pages = ARENA_PAGES
    /\ steps = 0
    /\ sh = Fresh(FALSE)
    /\ kind = "ARENA"
    /\ tw = NewTestingAllocator(0)
    /\ tsh = NoTwins
    /\ gone = {}

\* the same caller, of a build with ARENA_SIZE set to ARENA_PAGE_SIZE
PageInit ==
    /\ w = EmptyArenaAllocator
    /\ live = {}
    /\ last = NoCall
    /\ status = "ok"
    /\ ndebug \in BOOLEAN
    /\ arena_pages = 1
    /\ steps = 0
    /\ sh = Fresh(FALSE)
    /\ kind = "ARENA"
    /\ tw = NewTestingAllocator(0)
    /\ tsh = NoTwins
    /\ gone = {}

Running == status = "ok" /\ steps < MaxSteps

\* the caller keeps what a successful allocation returned
Granted(o, so, size) ==
    IF o.st = "ok" /\ o.res # NULLPTR
    THEN {[p |-> o.res, sp |-> so.res, size |-> size]}
    ELSE {}

\* Allocator_alloc on an ALLOCATOR_ARENA handle
Alloc ==
    /\ Running
    /\ Cardinality(live) < MaxLive
    /\ \E size \in Sizes, e \in Envs :
         \E o \in {ArenaAllocator_alloc(w, size, e)}, so \in {ArenaAllocator_alloc(sh.w, size, e)} :
            /\ ~o.oom /\ ~so.oom
            /\ w' = o.w
            /\ sh' = Twin(so)
            /\ live' = live \cup Granted(o, so, size)
            /\ last' = [Call("alloc", NULLPTR, size, 0, o)
                           EXCEPT !.lifo = AfterLifoFree(size)]
            /\ status' = o.st
    /\ steps' = steps + 1
    /\ UNCHANGED <<ndebug, arena_pages, kind, tw, tsh, gone>>

\* Allocator_zalloc on an ALLOCATOR_ARENA handle
Zalloc ==
    /\ Running
    /\ Cardinality(live) < MaxLive
    /\ \E size \in Sizes, e \in Envs :
         \E o \in {ArenaAllocator_zalloc(w, size, e)}, so \in {ArenaAllocator_zalloc(sh.w, size, e)} :
            /\ ~o.oom /\ ~so.oom
            /\ w' = o.w
            /\ sh' = Twin(so)
            /\ live' = live \cup Granted(o, so, size)
            /\ last' = [Call("zalloc", NULLPTR, size, 0, o)
                           EXCEPT !.lifo = AfterLifoFree(size)]
            /\ status' = o.st
    /\ steps' = steps + 1
    /\ UNCHANGED <<ndebug, arena_pages, kind, tw, tsh, gone>>

\* the null pointer, which the caller may pass with any size
NullArgs == {[p |-> NULLPTR, sp |-> NULLPTR, size |-> s] : s \in Sizes}

\* Allocator_free on an ALLOCATOR_ARENA handle
Free ==
    /\ Running
    /\ \E a \in live \cup NullArgs :
         \E o \in {ArenaAllocator_free(w, a.p, a.size, NoEnv)},
            so \in {ArenaAllocator_free(sh.w, a.sp, a.size, NoEnv)} :
            /\ w' = o.w
            /\ sh' = Twin(so)
            /\ live' = live \ {a}
            /\ last' = Call("free", a.p, a.size, 0, o)
            /\ status' = o.st
    /\ steps' = steps + 1
    /\ UNCHANGED <<ndebug, arena_pages, kind, tw, tsh, gone>>

\* the slot a realloc left behind in a block: the call moved an arena
\* allocation to another place of the arena and did not free the old one
GivenUp(ptr, size, nsize, o) ==
    IF /\ o.st = "ok" /\ o.res # NULLPTR /\ o.res # ptr
       /\ size > 0 /\ nsize > 0
       /\ ptr.k = "arena" /\ o.res.k = "arena"
    THEN {[id |-> ptr.id, end |-> ptr.off + ArenaAllocator_round_size_up(size)]}
    ELSE {}

\* Allocator_realloc on an ALLOCATOR_ARENA handle
Realloc ==
    /\ Running
    /\ \E a \in live \cup {[p |-> NULLPTR, sp |-> NULLPTR, size |-> 0]},
          nsize \in Sizes, e \in Envs :
         \E o \in {ArenaAllocator_realloc(w, a.p, a.size, nsize, e)}, so \in {ArenaAllocator_realloc(sh.w, a.sp, a.size, nsize, e)} :
            /\ ~o.oom /\ ~so.oom
            /\ a.p = NULLPTR => Cardinality(live) < MaxLive
            /\ w' = o.w
            /\ sh' = Twin(so)
            /\ live' = IF o.st # "ok" THEN live
                       ELSE IF a.size = 0 /\ nsize = 0 THEN live
                       ELSE IF nsize = 0 THEN live \ {a}
                       ELSE IF o.res = NULLPTR THEN live
                       ELSE (live \ {a}) \cup Granted(o, so, nsize)
            /\ last' = Call("realloc", a.p, a.size, nsize, o)
            /\ status' = o.st
            /\ gone' = gone \cup GivenUp(a.p, a.size, nsize, o)
    /\ steps' = steps + 1
    /\ UNCHANGED <<ndebug, arena_pages, kind, tw, tsh>>

\* Allocator_free_all on an ALLOCATOR_ARENA handle
FreeAll ==
    /\ Running
    /\ \E o \in {ArenaAllocator_free_all(w, NoEnv)} :
            /\ w' = o.w
            /\ sh' = Fresh(TRUE)
            /\ live' = {}
            /\ last' = Call("free_all", NULLPTR, 0, 0, o)
            /\ status' = o.st
    /\ gone' = {}
    /\ steps' = steps + 1
    /\ UNCHANGED <<ndebug, arena_pages, kind, tw, tsh>>

\* ArenaAllocator_stats on the arena: it reads the blocks and the list and
\* stores nothing; what it returns is ArenaAllocator_stats(w) of the state
\* it leaves.  The fresh arena is asked too.
Stats ==
    /\ Running
    /\ last' = Call("stats", NULLPTR, 0, 0, Out(w, NULLPTR))
    /\ sh' = Twin(Out(sh.w, NULLPTR))
    /\ steps' = steps + 1
    /\ UNCHANGED <<w, live, status, ndebug, arena_pages, kind, tw, tsh, gone>>

Next == Alloc \/ Zalloc \/ Free \/ Realloc \/ FreeAll \/ Stats

Spec == Init /\ [][Next]_vars

SpecPage == PageInit /\ [][Next]_vars

----------------------------------------------------------------------------
(* The program: a caller using a recording or a testing allocator through  *)
(* its Allocator handle.                                                   *)

\* What the heap does in one call.  ok and moved as for the arena; zero_null:
\* a request of size 0 yields a null pointer; lok: the heap grants the
\* storage of the ledger; ub: what a store through a null array does.  Only
\* the requests the call can make are answered: moved is for a realloc,
\* zero_null for a size of 0, lok and ub for a ledger that is full.
LedgerFull(x) == x.recorder.count >= x.recorder.capacity

REnvs(size, re) ==
    { [ok |-> ok, moved |-> moved, zero_null |-> z, lok |-> l[1], ub |-> l[2],
       ndebug |-> ndebug] :
        ok \in BOOLEAN,
        moved \in IF re THEN BOOLEAN ELSE {FALSE},
        z \in IF size = 0 THEN BOOLEAN ELSE {FALSE},
        l \in IF LedgerFull(tw) \/ (tsh.reset /\ (LedgerFull(tsh.zero.w) \/ LedgerFull(tsh.kept.w)))
              THEN {<<TRUE, "segv">>, <<FALSE, "segv">>, <<FALSE, "wild">>}
              ELSE {<<TRUE, "segv">>} }

RNoEnv ==
    [ok |-> TRUE, moved |-> FALSE, zero_null |-> FALSE, lok |-> TRUE, ub |-> "segv",
     ndebug |-> ndebug]

\* Allocator_alloc, Allocator_zalloc, Allocator_realloc, Allocator_free and
\* Allocator_free_all for the two strategies
Allocator_alloc(x, size, e) ==
    IF kind = "TESTING" THEN testing_alloc(x, size, e) ELSE recording_alloc(x, size, e)

Allocator_zalloc(x, size, e) ==
    IF kind = "TESTING" THEN testing_zalloc(x, size, e) ELSE recording_zalloc(x, size, e)

Allocator_realloc(x, data, orig_size, size, e) ==
    IF kind = "TESTING" THEN testing_realloc(x, data, orig_size, size, e)
    ELSE recording_realloc(x, data, orig_size, size, e)

Allocator_free(x, data, size, e) ==
    IF kind = "TESTING" THEN testing_free(x, data, size, e)
    ELSE recording_free(x, data, size, e)

Allocator_free_all(x, e) ==
    IF kind = "TESTING" THEN testing_free_all(x, e) ELSE recording_free_all(x, e)

\* the twins made at a free_all: zero is a freshly constructed context with the
\* same fail_at; kept is one whose call counter has the value x.nallocs
TwinsAt(x) ==
    [reset |-> TRUE,
     zero |-> NewTwin(NewTestingAllocator(x.fail_at)),
     kept |-> NewTwin([NewTestingAllocator(x.fail_at) EXCEPT !.nallocs = x.nallocs])]

\* a twin after the call whose outcome on it is o; there are no twins before
\* the first free_all, and a twin whose process has ended stays as it is
TwinAfter(t, o) ==
    IF ~tsh.reset \/ t.st # "ok" THEN t ELSE [w |-> o.w, st |-> o.st, res |-> o.res]

RNoCall ==
    [op |-> "none", ptr |-> NULL, size |-> 0, nsize |-> 0, res |-> NULL,
     hf |-> FALSE, injected |-> FALSE]

RCall(op, ptr, size, nsize, o, injected) ==
    [op |-> op, ptr |-> ptr, size |-> size, nsize |-> nsize, res |-> o.res,
     hf |-> o.hf, injected |-> injected]

\* the null pointer as something the caller holds
NullHeld == [p |-> NULL, size |-> 0, z |-> NULL, k |-> NULL]

\* what the caller holds after a call that returned p: the pointer, its size,
\* and the pointers the twins returned for the same call
Held(p, size, zo, ko) ==
    [p |-> p, size |-> size,
     z |-> IF tsh.reset /\ tsh.zero.st = "ok" THEN zo.res ELSE NULL,
     k |-> IF tsh.reset /\ tsh.kept.st = "ok" THEN ko.res ELSE NULL]

RInit ==
    /\ w = EmptyArenaAllocator
    /\ sh = Fresh(FALSE)
    /\ live = {}
    /\ last = RNoCall
    /\ status = "ok"
    /\ ndebug \in BOOLEAN
    /\ arena_pages = ARENA_PAGES
    /\ steps = 0
    /\ kind \in {"RECORDED", "TESTING"}
    /\ \E f \in FailAts :
          /\ kind = "RECORDED" => f = 0
          /\ tw = NewTestingAllocator(f)
    /\ tsh = NoTwins
    /\ gone = {}

RRunning == status = "ok" /\ steps < MaxCalls

\* none of the worlds ran out of the addresses of the model
InPool(o, zo, ko) == ~o.oom /\ ~zo.oom /\ ~ko.oom

\* p = Allocator_alloc(a, size)
RAlloc ==
    /\ RRunning
    /\ Cardinality(live) < MaxLive
    /\ \E size \in RecSizes :
       \E e \in REnvs(size, FALSE) :
         \E o \in {Allocator_alloc(tw, size, e)},
            zo \in {Allocator_alloc(tsh.zero.w, size, e)},
            ko \in {Allocator_alloc(tsh.kept.w, size, e)} :
            /\ InPool(o, zo, ko)
            /\ tw' = o.w
            /\ tsh' = [tsh EXCEPT !.zero = TwinAfter(@, zo), !.kept = TwinAfter(@, ko)]
            /\ live' = live \cup
                  IF o.res = NULL THEN {}
                  ELSE {Held(o.res, size, zo, ko)}
            /\ last' = RCall("alloc", NULL, size, 0, o, kind = "TESTING" /\ Injected(tw))
            /\ status' = o.st
    /\ steps' = steps + 1
    /\ UNCHANGED <<ndebug, arena_pages, kind, w, sh, gone>>

\* p = Allocator_zalloc(a, size)
RZalloc ==
    /\ RRunning
    /\ Cardinality(live) < MaxLive
    /\ \E size \in RecSizes :
       \E e \in REnvs(size, FALSE) :
         \E o \in {Allocator_zalloc(tw, size, e)},
            zo \in {Allocator_zalloc(tsh.zero.w, size, e)},
            ko \in {Allocator_zalloc(tsh.kept.w, size, e)} :
            /\ InPool(o, zo, ko)
            /\ tw' = o.w
            /\ tsh' = [tsh EXCEPT !.zero = TwinAfter(@, zo), !.kept = TwinAfter(@, ko)]
            /\ live' = live \cup
                  IF o.res = NULL THEN {}
                  ELSE {Held(o.res, size, zo, ko)}
            /\ last' = RCall("zalloc", NULL, size, 0, o, kind = "TESTING" /\ Injected(tw))
            /\ status' = o.st
    /\ steps' = steps + 1
    /\ UNCHANGED <<ndebug, arena_pages, kind, w, sh, gone>>

\* Allocator_free(a, p, size) of something the caller holds, or of NULL
RFree ==
    /\ RRunning
    /\ \E c \in live \cup {NullHeld} :
         \E o \in {Allocator_free(tw, c.p, c.size, RNoEnv)},
            zo \in {Allocator_free(tsh.zero.w, c.z, c.size, RNoEnv)},
            ko \in {Allocator_free(tsh.kept.w, c.k, c.size, RNoEnv)} :
            /\ tw' = o.w
            /\ tsh' = [tsh EXCEPT !.zero = TwinAfter(@, zo), !.kept = TwinAfter(@, ko)]
            /\ live' = live \ {c}
            /\ last' = RCall("free", c.p, c.size, 0, o, FALSE)
            /\ status' = o.st
    /\ steps' = steps + 1
    /\ UNCHANGED <<ndebug, arena_pages, kind, w, sh, gone>>

\* q = Allocator_realloc(a, p, size, nsize) of something the caller holds, or
\* of NULL; the caller goes on holding p when the call left it allocated
RRealloc ==
    /\ RRunning
    /\ \E c \in live \cup {NullHeld}, nsize \in RecSizes :
       \E e \in REnvs(nsize, TRUE) :
         \E o \in {Allocator_realloc(tw, c.p, c.size, nsize, e)},
            zo \in {Allocator_realloc(tsh.zero.w, c.z, c.size, nsize, e)},
            ko \in {Allocator_realloc(tsh.kept.w, c.k, c.size, nsize, e)} :
            /\ InPool(o, zo, ko)
            /\ c = NullHeld => Cardinality(live) < MaxLive
            /\ tw' = o.w
            /\ tsh' = [tsh EXCEPT !.zero = TwinAfter(@, zo), !.kept = TwinAfter(@, ko)]
            /\ live' =
                  LET kept == IF c.p # NULL /\ o.res # c.p /\ o.w.heap[c.p].live
                              THEN {c} ELSE {}
                      got == IF o.res = NULL THEN {}
                             ELSE {Held(o.res, nsize, zo, ko)}
                  IN ((live \ {c}) \cup kept) \cup got
            /\ last' = RCall("realloc", c.p, c.size, nsize, o,
                             kind = "TESTING" /\ nsize > c.size /\ Injected(tw))
            /\ status' = o.st
    /\ steps' = steps + 1
    /\ UNCHANGED <<ndebug, arena_pages, kind, w, sh, gone>>

\* Allocator_free_all(a); the caller holds nothing afterwards, and the twins
\* start afresh
RFreeAll ==
    /\ RRunning
    /\ \E o \in {Allocator_free_all(tw, RNoEnv)} :
          /\ tw' = o.w
          /\ tsh' = TwinsAt(o.w)
          /\ last' = RCall("free_all", NULL, 0, 0, o, FALSE)
          /\ status' = o.st
    /\ live' = {}
    /\ steps' = steps + 1
    /\ UNCHANGED <<ndebug, arena_pages, kind, w, sh, gone>>

RNext == RAlloc \/ RZalloc \/ RFree \/ RRealloc \/ RFreeAll

SpecRec == RInit /\ [][RNext]_vars

----------------------------------------------------------------------------
(* Properties.                                                             *)

\* the big allocations the caller holds
LiveBigs == {a.p.id : a \in {b \in live : b.p.k = "big"}}

\* node->next, for the sentinel or a big allocation's node
NextOf(x, node) ==
    IF node = SENTINEL THEN x.big_allocations.next ELSE x.big[node].next

\* C1: after free_all, whatever calls came before, every block and every big
\* allocation the arena obtained from the heap has been released: the heap
\* holds nothing on the arena's behalf.
C1_FreeAllLeavesNothingOutstanding ==
    (last.op = "free_all" /\ status = "ok") =>
        /\ \A b \in BlockIds : ~w.blk[b].live
        /\ \A n \in BigIds : ~w.big[n].live

\* C2: between calls, the nodes reached from the sentinel along next are
\* exactly the big allocations the caller holds, each once, and the links
\* are those of a doubly linked list.
C2_BigListIsTheLiveBigs ==
    status = "ok" =>
        /\ Range(BigList(w)) = LiveBigs
        /\ Len(BigList(w)) = Cardinality(LiveBigs)
        /\ \A n \in LiveBigs :
             /\ w.big[n].prev # NULL
             /\ NextOf(w, w.big[n].prev) = n
             /\ w.big[n].next = NULL \/ w.big[w.big[n].next].prev = n

\* C3: a call in which the heap refuses the request returns the null pointer
\* and leaves the arena as it was; the process goes on (no crash, no invalid
\* access).
C3_HeapFailureChangesNothing ==
    [][last'.hf => (status' = "ok" /\ last'.res = NULLPTR /\ w' = w)]_vars

\* where pointer res lies: for an arena pointer, how many blocks there are
\* from its block back to the oldest, and the offset in the block
Relative(x, res) ==
    IF res.k = "arena"
    THEN [k |-> "arena",
          blk |-> Len(ArenaChainFrom(x, res.id, MaxBlocks + 1)),
          off |-> res.off]
    ELSE [k |-> res.k, blk |-> 0, off |-> 0]

\* what a caller can tell of an arena: the used of each block of the chain,
\* the stats, and where the last result lies
Observed(x, res) ==
    [used |-> [i \in DOMAIN ArenaChain(x) |-> x.blk[ArenaChain(x)[i]].used],
     stats |-> ArenaAllocator_stats(x),
     res |-> Relative(x, res)]

ZeroStats ==
    [used |-> 0, capacity |-> 0, big_used |-> 0, big_count |-> 0, arena_count |-> 0]

\* C4: after free_all the context is that of a freshly constructed arena (no
\* current block, an empty list of big allocations, stats all zero), and from
\* then on every call gives what it gives on a fresh arena: the same number
\* of blocks, the same used values, the same relative addresses.
C4_FreeAllGivesAFreshArena ==
    status = "ok" =>
        /\ last.op = "free_all" =>
             /\ w.arena = NULL
             /\ w.big_allocations = [next |-> NULL, prev |-> NULL]
             /\ ArenaAllocator_stats(w) = ZeroStats
        /\ sh.st = "ok"
        /\ Observed(w, last.res) = Observed(sh.w, sh.res)

\* C4 witness: after a free_all that left the heap unlike an empty one, a
\* block was made and an allocation placed in it
C4_Witness ==
    /\ status = "ok"
    /\ sh.reset
    /\ w # sh.w
    /\ last.op \in {"alloc", "zalloc", "realloc"}
    /\ last.res.k = "arena"

\* the least multiple of 8 that is at least n
Round8(n) == ((n + 7) \div 8) * 8

\* the call c is a realloc of the frontier allocation of the current block,
\* of size a > 0, to a larger size that the block can still hold
GrowsFrontier(c) ==
    /\ c.op = "realloc"
    /\ c.size > 0
    /\ c.nsize > c.size
    /\ c.ptr.k = "arena"
    /\ c.ptr.id = c.pre.arena
    /\ c.ptr.off + Round8(c.size) = c.pre.used
    /\ c.pre.used - Round8(c.size) + Round8(c.nsize) <= ARENA_BUFFER_SIZE

\* C6 as claimed: a realloc of the most recent allocation A of the current
\* block from a > 0 to a+k, k > 0, that still fits the block returns A, adds
\* exactly Round8(k) to used, makes no block and copies nothing, for every a
\* and k.
C6_Original ==
    (status = "ok" /\ GrowsFrontier(last)) =>
        /\ last.res = last.ptr
        /\ Found(w).used = last.pre.used + Round8(last.nsize - last.size)
        /\ Found(w).arena_count = last.pre.arena_count
        /\ last.copied = 0

\* C6: a realloc of the most recent allocation A of the current block from
\* a > 0 to a+k, k > 0, that still fits the block and whose rounded new size
\* does not exceed BIG_ALLOC_THRESH returns A, adds exactly
\* Round8(a+k) - Round8(a) to used (Round8(k) when a is a multiple of 8),
\* makes no block and copies nothing.
C6_InPlaceRealloc ==
    (status = "ok" /\ GrowsFrontier(last) /\ Round8(last.nsize) <= ARENA_SIZE \div 2) =>
        /\ last.res = last.ptr
        /\ Found(w).used = last.pre.used + Round8(last.nsize) - Round8(last.size)
        /\ Found(w).arena = last.pre.arena
        /\ Found(w).arena_count = last.pre.arena_count
        /\ last.copied = 0
        /\ ~last.hf

\* C6 witness: an allocation of 5 bytes at the frontier grown in place by
\* more than its slack
C6_Witness ==
    /\ status = "ok"
    /\ GrowsFrontier(last)
    /\ last.size = 5
    /\ last.nsize = 262136
    /\ last.res = last.ptr
    /\ Found(w).used = last.pre.used + 262128

\* the live allocation a is at the frontier of the current block of x
LiveAtFrontier(x, a) ==
    /\ a.size > 0
    /\ a.p.k = "arena"
    /\ a.p.id = x.arena
    /\ a.p.off + Round8(a.size) = x.blk[x.arena].used

\* C7: a small non-zero allocation is at the frontier once made; after the
\* free of the frontier allocation B of size b, an alloc or zalloc of at most
\* b bytes returns B's address; the free of another allocation A while B is
\* the frontier leaves used, and the whole context, as it was.
C7_LifoReclaim ==
    [][/\ (status' = "ok" /\ last'.op \in {"alloc", "zalloc"}
              /\ last'.res.k = "arena" /\ last'.size > 0)
          => LiveAtFrontier(w', [p |-> last'.res, size |-> last'.size])
       /\ (status' = "ok" /\ FreedFrontier(last)
              /\ last'.op \in {"alloc", "zalloc"} /\ last'.size <= last.size)
          => last'.res = last.ptr
       /\ (status' = "ok" /\ last'.op = "free" /\ last'.size > 0
              /\ last'.ptr.k = "arena"
              /\ \E b \in live : b.p # last'.ptr /\ LiveAtFrontier(w, b))
          => w' = w
      ]_vars

\* C7 witness: after A and B, B was freed and the next allocation, no larger,
\* has B's address, A being still held
C7_Witness ==
    /\ status = "ok"
    /\ last.lifo
    /\ last.size > 0
    /\ last.res.k = "arena"
    /\ last.res.off > 0
    /\ last.res.off = last.pre.used
    /\ \E a \in live : a.p.k = "arena" /\ a.p.off = 0 /\ a.size > 0

\* the call just made is a free of a small allocation (or of NULL, or of no bytes)
SmallFree(c) == c.op = "free" /\ Round8(c.size) <= ARENA_SIZE \div 2
BigFree(c) == c.op = "free" /\ Round8(c.size) > ARENA_SIZE \div 2 /\ c.ptr # NULLPTR

\* C8: free(ptr, size) of a small allocation changes the context only when
\* ptr + Round8(size) is the frontier of the current block, and then used
\* goes down by exactly Round8(size); otherwise (another pointer, an older
\* block, NULL, size 0) nothing changes.  The free of a big allocation takes
\* it, and nothing else, out of the list, releases it and leaves every
\* block as it was.
C8_FreeFrame ==
    [][/\ (status' = "ok" /\ SmallFree(last'))
          => IF /\ last'.ptr # NULLPTR /\ last'.size > 0
                /\ LiveAtFrontier(w, [p |-> last'.ptr, size |-> last'.size])
             THEN w' = [w EXCEPT !.blk[w.arena].used = @ - Round8(last'.size)]
             ELSE w' = w
       /\ (status' = "ok" /\ BigFree(last'))
          => /\ Range(BigList(w')) = Range(BigList(w)) \ {last'.ptr.id}
             /\ ~w'.big[last'.ptr.id].live
             /\ w'.blk = w.blk
             /\ w'.arena = w.arena
      ]_vars

\* the call c is an alloc or zalloc of a small size that returned a pointer
SmallAlloc(c) ==
    /\ c.op \in {"alloc", "zalloc"}
    /\ Round8(c.size) <= ARENA_SIZE \div 2
    /\ c.res # NULLPTR

\* C9: a small allocation that fits the remaining capacity of the current
\* block is placed at its frontier and makes no block (so allocations whose
\* rounded sizes sum to at most the capacity stay in one block); the first
\* that does not fit makes exactly one block more, is placed at offset 0 of
\* the new block, and leaves the old block's used and the addresses returned
\* before as they were.
C9_BlockGrowth ==
    [][(status' = "ok" /\ SmallAlloc(last')) =>
          LET size == Round8(last'.size)
              fits == w.arena # NULL /\ size <= ARENA_BUFFER_SIZE - w.blk[w.arena].used
          IN /\ fits =>
                  /\ Len(ArenaChain(w')) = Len(ArenaChain(w))
                  /\ last'.res = ArenaPtr(w.arena, w.blk[w.arena].used)
                  /\ w' = [w EXCEPT !.blk[w.arena].used = @ + size]
             /\ ~fits =>
                  /\ Len(ArenaChain(w')) = Len(ArenaChain(w)) + 1
                  /\ w'.arena \notin Range(ArenaChain(w))
                  /\ last'.res = ArenaPtr(w'.arena, 0)
                  /\ w'.blk[w'.arena] = [live |-> TRUE, prev |-> w.arena, used |-> size]
                  /\ \A b \in BlockIds \ {w'.arena} : w'.blk[b] = w.blk[b]
                  /\ w'.big = w.big /\ w'.big_allocations = w.big_allocations
             /\ live \subseteq live'
      ]_vars

\* C9 witness: two allocations filled the one block to its capacity exactly,
\* and the next one made the second block
C9_Witness ==
    /\ status = "ok"
    /\ SmallAlloc(last)
    /\ last.pre.arena_count = 1
    /\ last.pre.used = ARENA_BUFFER_SIZE
    /\ last.size > 0
    /\ last.res.off = 0
    /\ Len(ArenaChain(w)) = 2
    /\ Cardinality(live) = 3

\* C10 as claimed: an alloc or zalloc is served as a big allocation exactly
\* when its rounded size exceeds half of what a block's buffer holds.
C10_Original ==
    (status = "ok" /\ last.op \in {"alloc", "zalloc"} /\ last.res # NULLPTR) =>
        (last.res.k = "big" <=> Round8(last.size) > ARENA_BUFFER_SIZE \div 2)

\* C10: an alloc or zalloc is served as a big allocation, no block made or
\* changed, exactly when its rounded size exceeds BIG_ALLOC_THRESH, half of
\* ARENA_SIZE (the size of a block with its header); every other request is
\* bump-allocated from a block.  realloc and free classify by the same rule:
\* every allocation the caller holds is a big one exactly when its rounded
\* size exceeds that threshold.
C10_Routing ==
    status = "ok" =>
        /\ (last.op \in {"alloc", "zalloc"} /\ last.res # NULLPTR) =>
             /\ last.res.k = "big" <=> Round8(last.size) > ARENA_SIZE \div 2
             /\ last.res.k = "arena" <=> Round8(last.size) <= ARENA_SIZE \div 2
             /\ last.res.k = "big" => Found(w) = last.pre
        /\ \A a \in live :
             /\ a.p.k = "big" <=> Round8(a.size) > ARENA_SIZE \div 2
             /\ a.p.k = "arena" <=> Round8(a.size) <= ARENA_SIZE \div 2

\* C10 witness: a request whose rounded size is the threshold itself, more
\* than half of the buffer, is bump-allocated, and the caller also holds a
\* big allocation
C10_Witness ==
    /\ status = "ok"
    /\ last.op \in {"alloc", "zalloc"}
    /\ Round8(last.size) = ARENA_SIZE \div 2
    /\ last.res.k = "arena"
    /\ \E a \in live : a.p.k = "big"

----------------------------------------------------------------------------
(* Recording and testing allocators after free_all.                        *)

\* What a caller can see of a context's ledger: for each slot below count,
\* whether it holds an allocation and the size recorded for it.
Ledger(x) ==
    [i \in 1..x.recorder.count |->
        [held |-> x.recorder.allocations[i] # NULL,
         size |-> x.recorder.allocation_sizes[i]]]

\* The context and the twin t have behaved alike since the last free_all: the
\* processes stand alike, the last call succeeded or failed on both, and the
\* ledgers have the same contents.  A twin that could not get the storage of
\* its ledger from the heap is not compared.
AlikeSinceReset(t) ==
    (tsh.reset /\ t.st \notin {"segv", "wild"}) =>
        /\ status = t.st
        /\ (last.res = NULL) <=> (t.res = NULL)
        /\ Ledger(tw) = Ledger(t.w)

----------------------------------------------------------------------------
(* Arena realloc, case by case.                                            *)

\* the last call was a realloc from size to nsize
ReallocOf(c) == c.op = "realloc"

\* C11: the degenerate cases of arena realloc, for every pointer the caller
\* may pass, a pointer got from alloc(0) included: realloc(ptr,0,0) returns
\* ptr and changes nothing; realloc(ptr,0,n), n > 0, is alloc(n);
\* realloc(ptr,o,0), o > 0, is free(ptr,o) and returns NULL; realloc(ptr,o,n)
\* with round8(o) = round8(n) returns ptr and changes nothing.
C11_ReallocDegenerate ==
    [][ReallocOf(last') =>
        LET c == last' IN
        /\ (c.size = 0 /\ c.nsize = 0) =>
              (c.res = c.ptr /\ w' = w /\ status' = "ok")
        /\ (c.size = 0 /\ c.nsize > 0) =>
              \E e \in Envs :
                 LET a == ArenaAllocator_alloc(w, c.nsize, e)
                 IN w' = a.w /\ c.res = a.res /\ status' = a.st
        /\ (c.size > 0 /\ c.nsize = 0) =>
              LET f == ArenaAllocator_free(w, c.ptr, c.size, NoEnv)
              IN w' = f.w /\ c.res = NULLPTR /\ status' = f.st
        /\ (c.size > 0 /\ c.nsize > 0 /\ Round8(c.size) = Round8(c.nsize)) =>
              (c.res = c.ptr /\ w' = w /\ status' = "ok")
    ]_vars

\* a realloc between two non-zero sizes whose rounded sizes differ
BigToSmall(c) ==
    /\ ReallocOf(c) /\ c.size > 0 /\ c.nsize > 0
    /\ Round8(c.size) > BIG_ALLOC_THRESH /\ Round8(c.nsize) <= BIG_ALLOC_THRESH

SmallToBig(c) ==
    /\ ReallocOf(c) /\ c.size > 0 /\ c.nsize > 0
    /\ Round8(c.size) <= BIG_ALLOC_THRESH /\ Round8(c.nsize) > BIG_ALLOC_THRESH

Min(a, b) == IF a < b THEN a ELSE b

SmallToSmall(c) ==
    /\ ReallocOf(c) /\ c.size > 0 /\ c.nsize > 0
    /\ Round8(c.size) <= BIG_ALLOC_THRESH /\ Round8(c.nsize) <= BIG_ALLOC_THRESH
    /\ Round8(c.size) # Round8(c.nsize)

NotInPlace(x, c) ==
    /\ SmallToSmall(c)
    /\ ~(/\ AtFrontier(x, c.ptr, Round8(c.size))
         /\ x.blk[x.arena].used - Round8(c.size) + Round8(c.nsize) <= ARENA_BUFFER_SIZE)

\* C13: a small-to-small realloc that is not in place, when it succeeds,
\* bump-allocates the new rounded size: in a new block exactly when the current
\* block has less than the new size left, else at the frontier; used of the
\* receiving block grows by exactly the new rounded size and no other block
\* changes, whether the new size is larger or smaller than the old one.  The
\* slot given up stays below the frontier of its block, and its block stays
\* allocated, until the next free_all.
C13_SmallToSmallElsewhere ==
    [][LET c == last' IN
       /\ (NotInPlace(w, c) /\ c.res # NULLPTR) =>
             /\ status' = "ok"
             /\ c.res.k = "arena" /\ c.res.id = w'.arena
             /\ (w'.arena # w.arena) <=>
                   (ARENA_BUFFER_SIZE - w.blk[w.arena].used < Round8(c.nsize))
             /\ IF w'.arena = w.arena
                THEN /\ c.res.off = w.blk[w.arena].used
                     /\ w'.blk = [w.blk EXCEPT ![w.arena].used = @ + Round8(c.nsize)]
                ELSE /\ ~w.blk[w'.arena].live
                     /\ c.res.off = 0
                     /\ w'.blk = [w.blk EXCEPT ![w'.arena] =
                           [live |-> TRUE, prev |-> w.arena, used |-> Round8(c.nsize)]]
             /\ [id |-> c.ptr.id, end |-> c.ptr.off + Round8(c.size)] \in gone'
       /\ \A g \in gone' : w'.blk[g.id].live /\ w'.blk[g.id].used >= g.end
    ]_vars

\* C13 witness: an allocation that did not end at the frontier was made
\* smaller, and got fresh space at the frontier for it; the slot it left is
\* still below the frontier
C13_Witness ==
    /\ status = "ok"
    /\ SmallToSmall(last)
    /\ last.nsize < last.size
    /\ last.ptr.id = last.pre.arena
    /\ last.ptr.off + Round8(last.size) < last.pre.used
    /\ last.res = ArenaPtr(last.pre.arena, last.pre.used)
    /\ w.blk[w.arena].used = last.pre.used + Round8(last.nsize)
    /\ gone = {[id |-> last.ptr.id, end |-> last.ptr.off + Round8(last.size)]}

\* a realloc from a big allocation to a big size of another rounded size
BigToBig(c) ==
    /\ ReallocOf(c) /\ c.size > 0 /\ c.nsize > 0
    /\ Round8(c.size) > BIG_ALLOC_THRESH /\ Round8(c.nsize) > BIG_ALLOC_THRESH
    /\ Round8(c.size) # Round8(c.nsize)

\* the links of x that refer to node n
LinksTo(x, n) ==
    {<<m, "next">> : m \in {m \in BigIds : x.big[m].live /\ x.big[m].next = n}}
    \cup {<<m, "prev">> : m \in {m \in BigIds : x.big[m].live /\ x.big[m].prev = n}}
    \cup {<<SENTINEL, "next">> : m \in {m \in {SENTINEL} : x.big_allocations.next = n}}
    \cup {<<SENTINEL, "prev">> : m \in {m \in {SENTINEL} : x.big_allocations.prev = n}}

\* what the big-to-big realloc c, which returned a new address, must have
\* done to the list of x, giving y
MovedInList(x, y, c) ==
    LET old == c.ptr.id
        new == c.res.id
    IN /\ y.big[new].live
       /\ x.big[old].prev # NULL => NextOf(y, x.big[old].prev) = new
       /\ x.big[old].next # NULL => y.big[x.big[old].next].prev = new
       /\ LinksTo(y, old) = {}
       /\ Range(BigList(y)) = {IF n = old THEN new ELSE n : n \in Range(BigList(x))}

\* C14: after a big-to-big realloc in which the heap moved the allocation,
\* the next link of the node before it and the prev link of the node after it
\* refer to the new address, no link refers to the old one, and the nodes
\* reached from the sentinel are those reached before with the new address in
\* place of the old; after a failed one the list is as it was and the
\* allocation is still live and reached from the sentinel.
C14_BigToBigKeepsTheList ==
    [][LET c == last' IN
       /\ (BigToBig(c) /\ c.res # NULLPTR /\ c.res # c.ptr) =>
             (status' = "ok" /\ MovedInList(w, w', c))
       /\ (BigToBig(c) /\ c.res = NULLPTR) =>
             /\ status' = "ok"
             /\ w' = w
             /\ w'.big[c.ptr.id].live
             /\ c.ptr.id \in Range(BigList(w'))
    ]_vars

----------------------------------------------------------------------------
(* Arena stats.                                                            *)

RECURSIVE SumOver(_, _)
\* the sum of f over the set S
SumOver(S, f) ==
    IF S = {} THEN 0
    ELSE LET x == CHOOSE x \in S : TRUE IN f[x] + SumOver(S \ {x}, f)

\* the blocks the heap holds for the arena
LiveBlocks(x) == {b \in BlockIds : x.blk[b].live}

\* C15: stats changes no field of the context, and what it reports is: the
\* number of blocks, that number times the capacity of a block's buffer, the
\* sum of used over the blocks, the number of big allocations live, and the
\* sum of the current rounded sizes of the live big allocations.
C15_StatsReport ==
    /\ [][last'.op = "stats" => (w' = w /\ status' = status)]_vars
    /\ []((last.op = "stats" /\ status = "ok") =>
            LET r == ArenaAllocator_stats(w)
                bigs == {a \in live : a.p.k = "big"}
            IN /\ r.arena_count = Cardinality(LiveBlocks(w))
               /\ r.capacity = r.arena_count * ARENA_BUFFER_SIZE
               /\ r.used = SumOver(LiveBlocks(w), [b \in BlockIds |-> w.blk[b].used])
               /\ r.big_count = Cardinality(bigs)
               /\ r.big_used = SumOver(bigs, [a \in bigs |-> Round8(a.size)]))

----------------------------------------------------------------------------
(* The Allocator handle: the switch over a.type in each of the seven       *)
(* operations of allocator.c.  The contexts behind the handle are w (for   *)
(* ALLOCATOR_ARENA) and tw (for ALLOCATOR_RECORDED and ALLOCATOR_TESTING;  *)
(* for ALLOCATOR_MALLOC its heap alone).  The build is one where           *)
(* Allocator_good_size returns size for the heap-backed types (no          *)
(* malloc_good_size of the C library).                                     *)

AllocatorTypes == {"UNSET", "MALLOC", "ARENA", "NULL", "RECORDED", "TESTING"}

\* The outcome of a call through the handle: the contexts, the pointer
\* returned (null tells whether it is the null pointer) or the integer
\* returned (ret), and whether the call returned to its caller at all.
Returned(xw, xt, res, null, ret) ==
    [w |-> xw, tw |-> xt, res |-> res, null |-> null, ret |-> ret, st |-> "ok",
     returned |-> TRUE, oom |-> FALSE]

\* ALLOC_BAD(): abort()
ALLOC_BAD(xw, xt) ==
    [w |-> xw, tw |-> xt, res |-> NULL, null |-> TRUE, ret |-> 0, st |-> "abort",
     returned |-> FALSE, oom |-> FALSE]

\* the outcome of a call on the heap, the recorder or the testing allocator
FromHeap(xw, m) ==
    [w |-> xw, tw |-> m.w, res |-> m.res, null |-> m.res = NULL, ret |-> 0,
     st |-> m.st, returned |-> m.st \in {"ok", "wild"}, oom |-> m.oom]

\* the outcome of a call on the arena
FromArena(o, xt) ==
    [w |-> o.w, tw |-> xt, res |-> o.res, null |-> o.res = NULLPTR, ret |-> 0,
     st |-> o.st, returned |-> o.st \in {"ok", "wild"}, oom |-> o.oom]

\* Allocator_supports_free_all
Dispatch_supports_free_all(a, xw, xt) ==
    CASE a \in {"MALLOC", "NULL"} -> Returned(xw, xt, NULL, TRUE, 0)
      [] a = "ARENA" -> Returned(xw, xt, NULL, TRUE, 1)
      [] a = "RECORDED" -> Returned(xw, xt, NULL, TRUE, 1)
      [] a = "TESTING" -> Returned(xw, xt, NULL, TRUE, 1)
      [] OTHER -> ALLOC_BAD(xw, xt)

\* Allocator_free_all with ALLOCATOR_NULL returning to the caller
Dispatch_free_all_NullReturns(a, xw, xt, e) ==
    CASE a = "ARENA" -> FromArena(ArenaAllocator_free_all(xw, e), xt)
      [] a = "NULL" -> Returned(xw, xt, NULL, TRUE, 0)
      [] a = "RECORDED" -> FromHeap(xw, recording_free_all(xt, e))
      [] a = "TESTING" -> FromHeap(xw, testing_free_all(xt, e))
      [] OTHER -> ALLOC_BAD(xw, xt)

\* Allocator_free_all
Dispatch_free_all(a, xw, xt, e) ==
    CASE a = "ARENA" -> FromArena(ArenaAllocator_free_all(xw, e), xt)
      [] a = "RECORDED" -> FromHeap(xw, recording_free_all(xt, e))
      [] a = "TESTING" -> FromHeap(xw, testing_free_all(xt, e))
      [] OTHER -> \* ALLOCATOR_UNSET, ALLOCATOR_MALLOC, ALLOCATOR_NULL
                  ALLOC_BAD(xw, xt)

\* Allocator_alloc with ALLOCATOR_NULL served by malloc
Dispatch_alloc_NullMallocs(a, xw, xt, size, e) ==
    CASE a \in {"MALLOC", "NULL"} -> FromHeap(xw, HeapAlloc(xt, size, e))
      [] a = "ARENA" -> FromArena(ArenaAllocator_alloc(xw, size, e), xt)
      [] a = "RECORDED" -> FromHeap(xw, recording_alloc(xt, size, e))
      [] a = "TESTING" -> FromHeap(xw, testing_alloc(xt, size, e))
      [] OTHER -> ALLOC_BAD(xw, xt)

\* Allocator_alloc
Dispatch_alloc(a, xw, xt, size, e) ==
    CASE a = "MALLOC" -> FromHeap(xw, HeapAlloc(xt, size, e))
      [] a = "ARENA" -> FromArena(ArenaAllocator_alloc(xw, size, e), xt)
      [] a = "NULL" -> Returned(xw, xt, NULL, TRUE, 0)
      [] a = "RECORDED" -> FromHeap(xw, recording_alloc(xt, size, e))
      [] a = "TESTING" -> FromHeap(xw, testing_alloc(xt, size, e))
      [] OTHER -> ALLOC_BAD(xw, xt)

\* Allocator_zalloc
Dispatch_zalloc(a, xw, xt, size, e) ==
    CASE a = "MALLOC" -> FromHeap(xw, HeapAlloc(xt, size, e))
      [] a = "ARENA" -> FromArena(ArenaAllocator_zalloc(xw, size, e), xt)
      [] a = "NULL" -> Returned(xw, xt, NULL, TRUE, 0)
      [] a = "RECORDED" -> FromHeap(xw, recording_zalloc(xt, size, e))
      [] a = "TESTING" -> FromHeap(xw, testing_zalloc(xt, size, e))
      [] OTHER -> ALLOC_BAD(xw, xt)

\* Allocator_realloc
Dispatch_realloc(a, xw, xt, data, orig_size, size, e) ==
    CASE a = "MALLOC" -> FromHeap(xw, HeapRealloc(xt, data, size, e))
      [] a = "ARENA" -> FromArena(ArenaAllocator_realloc(xw, data, orig_size, size, e), xt)
      [] a = "NULL" -> Returned(xw, xt, NULL, TRUE, 0)
      [] a = "RECORDED" -> FromHeap(xw, recording_realloc(xt, data, orig_size, size, e))
      [] a = "TESTING" -> FromHeap(xw, testing_realloc(xt, data, orig_size, size, e))
      [] OTHER -> ALLOC_BAD(xw, xt)

\* const_free(data) of ALLOCATOR_MALLOC: free(NULL) does nothing
HeapFreeChecked(x, data) ==
    IF data = NULL THEN ROut(x, NULL)
    ELSE IF ~x.heap[data].live THEN [ROut(x, NULL) EXCEPT !.st = "uaf"]
    ELSE ROut(HeapFree(x, data), NULL)

\* Allocator_free
Dispatch_free(a, xw, xt, data, size, e) ==
    CASE a = "MALLOC" -> FromHeap(xw, HeapFreeChecked(xt, data))
      [] a = "ARENA" -> FromArena(ArenaAllocator_free(xw, data, size, e), xt)
      [] a = "NULL" -> Returned(xw, xt, NULL, TRUE, 0)
      [] a = "RECORDED" -> FromHeap(xw, recording_free(xt, data, size, e))
      [] a = "TESTING" -> FromHeap(xw, testing_free(xt, data, size, e))
      [] OTHER -> ALLOC_BAD(xw, xt)

\* Allocator_good_size with ALLOCATOR_UNSET going on to its return statement
Dispatch_good_size_UnsetReturns(a, xw, xt, size) ==
    CASE a = "ARENA" ->
            Returned(xw, xt, NULL, TRUE, ArenaAllocator_round_size_up(size))
      [] a \in {"UNSET", "MALLOC", "NULL", "RECORDED", "TESTING"} ->
            Returned(xw, xt, NULL, TRUE, size)
      [] OTHER -> ALLOC_BAD(xw, xt)

\* Allocator_good_size
Dispatch_good_size(a, xw, xt, size) ==
    CASE a = "ARENA" ->
            Returned(xw, xt, NULL, TRUE, ArenaAllocator_round_size_up(size))
      [] a \in {"MALLOC", "NULL", "RECORDED", "TESTING"} ->
            Returned(xw, xt, NULL, TRUE, size)
      [] OTHER -> ALLOC_BAD(xw, xt)

----------------------------------------------------------------------------
(* The program: a caller using a handle of any type.                       *)

\* the sizes asked through the handle
DSizes == {0, 8, 300000, SIZE_MOD - 3}

\* the sizes asked of Allocator_good_size
GoodSizes ==
    {0, 1, 7, 8, 9, 16, 4095, 262144, 262145,
     SIZE_MOD - 9, SIZE_MOD - 8, SIZE_MOD - 7, SIZE_MOD - 1}

\* the null pointer as the handle's type has it in the model
NullArg == IF kind = "ARENA" THEN NULLPTR ELSE NULL

DNoCall ==
    [op |-> "none", size |-> 0, nsize |-> 0, res |-> NULL, null |-> TRUE,
     ret |-> 0, returned |-> TRUE]

DCall(op, size, nsize, o) ==
    [op |-> op, size |-> size, nsize |-> nsize, res |-> o.res, null |-> o.null,
     ret |-> o.ret, returned |-> o.returned]

DInit ==
    /\ kind \in AllocatorTypes
    /\ w = EmptyArenaAllocator
    /\ \E f \in FailAts :
          /\ kind # "TESTING" => f = 0
          /\ tw = NewTestingAllocator(f)
    /\ live = {}
    /\ last = DNoCall
    /\ status = "ok"
    /\ ndebug \in BOOLEAN
    /\ arena_pages = ARENA_PAGES
    /\ steps = 0
    /\ sh = Fresh(FALSE)
    /\ tsh = NoTwins
    /\ gone = {}

DRunning == status = "ok" /\ steps < MaxOps

\* what a caller may pass to a handle of type ALLOCATOR_NULL, which gives out
\* no pointer of its own: any address, with any size
AnyPointers ==
    IF kind = "NULL" THEN {[p |-> q, size |-> s] : q \in RecPtrs, s \in DSizes}
    ELSE {}

\* p = Allocator_alloc(a, size)
DAlloc ==
    /\ DRunning
    /\ Cardinality(live) < MaxLive
    /\ \E size \in DSizes :
       \E e \in REnvs(size, FALSE) :
         \E o \in {Dispatch_alloc(kind, w, tw, size, e)} :
            /\ ~o.oom
            /\ w' = o.w
            /\ tw' = o.tw
            /\ live' = live \cup IF o.st = "ok" /\ ~o.null
                                 THEN {[p |-> o.res, size |-> size]} ELSE {}
            /\ last' = DCall("alloc", size, 0, o)
            /\ status' = o.st
    /\ steps' = steps + 1
    /\ UNCHANGED <<ndebug, arena_pages, kind, sh, tsh, gone>>

\* p = Allocator_zalloc(a, size)
DZalloc ==
    /\ DRunning
    /\ Cardinality(live) < MaxLive
    /\ \E size \in DSizes :
       \E e \in REnvs(size, FALSE) :
         \E o \in {Dispatch_zalloc(kind, w, tw, size, e)} :
            /\ ~o.oom
            /\ w' = o.w
            /\ tw' = o.tw
            /\ live' = live \cup IF o.st = "ok" /\ ~o.null
                                 THEN {[p |-> o.res, size |-> size]} ELSE {}
            /\ last' = DCall("zalloc", size, 0, o)
            /\ status' = o.st
    /\ steps' = steps + 1
    /\ UNCHANGED <<ndebug, arena_pages, kind, sh, tsh, gone>>

\* the caller still holds c after Allocator_realloc(a, c.p, c.size, nsize)
\* came back with o
DKeeps(c, nsize, o) ==
    /\ c \in live
    /\ IF kind = "ARENA"
       THEN (c.size = 0 /\ nsize = 0) \/ (nsize # 0 /\ o.null)
       ELSE o.tw.heap[c.p].live /\ (o.null \/ o.res # c.p)

\* what the caller got from it
DGets(c, nsize, o) ==
    IF o.null \/ (kind = "ARENA" /\ c.size = 0 /\ nsize = 0) THEN {}
    ELSE {[p |-> o.res, size |-> nsize]}

\* q = Allocator_realloc(a, p, size, nsize) of something the caller holds, or
\* of NULL
DRealloc ==
    /\ DRunning
    /\ \E c \in live \cup {[p |-> NullArg, size |-> 0]} \cup AnyPointers,
          nsize \in DSizes :
       \E e \in REnvs(nsize, TRUE) :
         \E o \in {Dispatch_realloc(kind, w, tw, c.p, c.size, nsize, e)} :
            /\ ~o.oom
            /\ c \notin live => Cardinality(live) < MaxLive
            /\ w' = o.w
            /\ tw' = o.tw
            /\ live' = IF o.st # "ok" THEN live
                       ELSE ((live \ {c}) \cup (IF DKeeps(c, nsize, o) THEN {c} ELSE {}))
                            \cup DGets(c, nsize, o)
            /\ last' = DCall("realloc", c.size, nsize, o)
            /\ status' = o.st
    /\ steps' = steps + 1
    /\ UNCHANGED <<ndebug, arena_pages, kind, sh, tsh, gone>>

\* Allocator_free(a, p, size) of something the caller holds, or of NULL
DFree ==
    /\ DRunning
    /\ \E c \in live \cup {[p |-> NullArg, size |-> 0]} \cup AnyPointers :
         \E o \in {Dispatch_free(kind, w, tw, c.p, c.size, RNoEnv)} :
            /\ w' = o.w
            /\ tw' = o.tw
            /\ live' = live \ {c}
            /\ last' = DCall("free", c.size, 0, o)
            /\ status' = o.st
    /\ steps' = steps + 1
    /\ UNCHANGED <<ndebug, arena_pages, kind, sh, tsh, gone>>

\* Allocator_free_all(a)
DFreeAll ==
    /\ DRunning
    /\ \E o \in {Dispatch_free_all(kind, w, tw, RNoEnv)} :
          /\ w' = o.w
          /\ tw' = o.tw
          /\ live' = IF o.st = "ok" THEN {} ELSE live
          /\ last' = DCall("free_all", 0, 0, o)
          /\ status' = o.st
    /\ steps' = steps + 1
    /\ UNCHANGED <<ndebug, arena_pages, kind, sh, tsh, gone>>

\* n = Allocator_good_size(a, size)
DGoodSize ==
    /\ DRunning
    /\ \E size \in GoodSizes :
         \E o \in {Dispatch_good_size(kind, w, tw, size)} :
            /\ w' = o.w
            /\ tw' = o.tw
            /\ last' = DCall("good_size", size, 0, o)
            /\ status' = o.st
    /\ steps' = steps + 1
    /\ UNCHANGED <<live, ndebug, arena_pages, kind, sh, tsh, gone>>

\* b = Allocator_supports_free_all(a)
DSupportsFreeAll ==
    /\ DRunning
    /\ \E o \in {Dispatch_supports_free_all(kind, w, tw)} :
          /\ w' = o.w
          /\ tw' = o.tw
          /\ last' = DCall("supports_free_all", 0, 0, o)
          /\ status' = o.st
    /\ steps' = steps + 1
    /\ UNCHANGED <<live, ndebug, arena_pages, kind, sh, tsh, gone>>

DNext ==
    \/ DAlloc \/ DZalloc \/ DRealloc \/ DFree \/ DFreeAll
    \/ DGoodSize \/ DSupportsFreeAll

SpecDispatch == DInit /\ [][DNext]_vars

----------------------------------------------------------------------------
(* Allocator_good_size.                                                    *)

\* C16: for every size s of the size type and every usable type of handle,
\* good_size(s) >= s, sizes within 7 of the largest one included.  The arena
\* rounds s up modulo 2^SIZE_BITS, and a size within 7 of the largest that is no
\* multiple of 8 comes back as 0.
C16_GoodSizeAtLeastTheRequest ==
    (last.op = "good_size" /\ last.returned) => last.ret >= last.size

\* C17: good_size is idempotent for every type of handle and every size:
\* good_size(good_size(s)) = good_size(s).
C17_GoodSizeIdempotent ==
    (last.op = "good_size" /\ last.returned) =>
        LET again == Dispatch_good_size(kind, w, tw, last.ret)
        IN again.returned /\ again.ret = last.ret

\* the arena was asked for a size that it rounds up
C17_Witness ==
    /\ kind = "ARENA"
    /\ last.op = "good_size"
    /\ last.returned
    /\ last.ret > last.size

\* the least multiple of 8 that is >= s, as a number
LeastMultipleOf8(s) == CHOOSE m \in s..(s + 7) : m % 8 = 0

\* C18: the arena's good_size(s) is the least multiple of 8 that is >= s, and
\* a successful small alloc(s) or zalloc(s) on the arena advances used of the
\* current block by exactly good_size(s), so that the good_size(s) bytes at the
\* returned address end where the next allocation begins.
C18_ArenaGoodSizeIsTheGrant ==
    kind = "ARENA" =>
      /\ (last.op = "good_size" /\ last.returned) =>
            last.ret = LeastMultipleOf8(last.size)
      /\ (last.op \in {"alloc", "zalloc"} /\ last.returned /\ ~last.null
            /\ last.res.k = "arena") =>
            /\ w.arena = last.res.id
            /\ w.blk[w.arena].used =
                 last.res.off + Dispatch_good_size(kind, w, tw, last.size).ret

----------------------------------------------------------------------------
(* Fatal uses of a handle.                                                 *)

\* C19: each of alloc, zalloc, realloc, free, free_all, good_size and
\* supports_free_all on a handle of type ALLOCATOR_UNSET ends the process:
\* nothing is returned to the caller, no other allocator is used in its place
\* and no context is modified.
C19_UnsetIsFatal ==
    [][kind = "UNSET" =>
          /\ status' = "abort"
          /\ ~last'.returned
          /\ last'.null
          /\ w' = w /\ tw' = tw /\ live' = live]_vars

\* an unset handle was asked for a good size
C19_Witness ==
    /\ kind = "UNSET"
    /\ last.op = "good_size"
    /\ status = "abort"

\* C20: free_all on a handle of type ALLOCATOR_MALLOC or ALLOCATOR_NULL ends
\* the process; for every type but ALLOCATOR_UNSET supports_free_all returns
\* true exactly for ARENA, RECORDED and TESTING, and free_all returns to its
\* caller if and only if supports_free_all returns true.
C20_FreeAllAsSupported ==
    /\ (last.op = "free_all" /\ kind \in {"MALLOC", "NULL"}) => status = "abort"
    /\ (last.op = "supports_free_all" /\ kind # "UNSET") =>
          /\ last.returned
          /\ status = "ok"
          /\ last.ret = 1 <=> kind \in {"ARENA", "RECORDED", "TESTING"}
    /\ (last.op = "free_all" /\ kind # "UNSET") =>
          LET s == Dispatch_supports_free_all(kind, w, tw)
          IN (last.returned /\ status = "ok") <=> (s.returned /\ s.ret = 1)

\* free_all was called on a handle of the heap
C20_Witness ==
    /\ kind = "MALLOC"
    /\ last.op = "free_all"
    /\ status = "abort"

----------------------------------------------------------------------------
(* The null allocator.                                                     *)

\* C21: on a handle of type ALLOCATOR_NULL alloc, zalloc and realloc return
\* the null pointer for every input and obtain no storage; free does nothing,
\* for every pointer and size; good_size(s) = s; and no operation but free_all
\* ends the process or changes any state.
C21_NullAllocator ==
    [][kind = "NULL" =>
          /\ last'.op \in {"alloc", "zalloc", "realloc"} => last'.null
          /\ last'.op = "good_size" => last'.ret = last'.size
          /\ last'.op # "free_all" =>
                /\ last'.returned
                /\ status' = "ok"
                /\ w' = w /\ tw' = tw /\ live' = {}]_vars

\* after an alloc that gave nothing, some address was freed with a size
C21_Witness ==
    /\ kind = "NULL"
    /\ last.op = "free"
    /\ last.size > 0
    /\ steps > 1
    /\ status = "ok"

----------------------------------------------------------------------------
(* The program: a caller of a recording or testing allocator who may pass  *)
(* any pointer with any size, and who may check for leaks and clean up.    *)

\* the pointers passed to free and realloc: NULL, those of the allocations
\* there are, the one passed to the call before (released by it, if it was),
\* and one address that is not allocated
AnyPointer ==
    ({NULL, last.ptr} \cup {c.p : c \in live})
       \cup (IF FreeRecPtrs(tw) = {} THEN {} ELSE {Lowest(FreeRecPtrs(tw))})

\* the pointers and sizes passed to free and realloc
AnyArgs == {[p |-> q, size |-> s] : q \in AnyPointer, s \in RecSizes}

\* the call record of this caller.
\*   valid: the pointer passed was NULL or one the caller holds, with its size;
\*   proper: so far every call was a valid alloc, zalloc, realloc, free or
\*          free_all;
\*   plain: proper, and the heap granted every request;
\*   injected: the testing allocator failed the call by injection;
\*   again: the call is a free of the pointer, with the size, that the call
\*          before freed validly
LNoCall ==
    [op |-> "none", ptr |-> NULL, size |-> 0, nsize |-> 0, res |-> NULL,
     hf |-> FALSE, valid |-> TRUE, proper |-> TRUE, plain |-> TRUE,
     injected |-> FALSE, again |-> FALSE]

LCall(op, ptr, size, nsize, o, valid, injected) ==
    [op |-> op, ptr |-> ptr, size |-> size, nsize |-> nsize, res |-> o.res,
     hf |-> o.hf, valid |-> valid,
     proper |-> last.proper /\ valid /\ op \notin {"assert_all_freed", "cleanup"},
     plain |-> last.plain /\ valid /\ ~o.hf
                 /\ op \notin {"assert_all_freed", "cleanup"},
     injected |-> injected,
     again |-> /\ op = "free" /\ last.op = "free" /\ last.valid
               /\ ptr # NULL /\ ptr = last.ptr /\ size = last.size]

\* the allocations there are after a call that came back with o and gave the
\* caller got
LiveAfter(o, got) ==
    IF o.st # "ok" THEN live
    ELSE {c \in live : o.w.heap[c.p].live /\ c.p # o.res} \cup got

\* the values of fail_at of this caller's testing allocator
LedgerFailAts == {0, 2}

LInit ==
    /\ w = EmptyArenaAllocator
    /\ sh = Fresh(FALSE)
    /\ live = {}
    /\ last = LNoCall
    /\ status = "ok"
    /\ ndebug \in BOOLEAN
    /\ arena_pages = ARENA_PAGES
    /\ steps = 0
    /\ kind \in {"RECORDED", "TESTING"}
    /\ \E f \in LedgerFailAts :
          /\ kind = "RECORDED" => f = 0
          /\ tw = NewTestingAllocator(f)
    /\ tsh = NoTwins
    /\ gone = {}

LRunning == status = "ok" /\ steps < MaxUses

\* p = Allocator_alloc(a, size)
LAlloc ==
    /\ LRunning
    /\ Cardinality(live) < MaxLive
    /\ \E size \in RecSizes :
       \E e \in REnvs(size, FALSE) :
         \E o \in {Allocator_alloc(tw, size, e)} :
            /\ ~o.oom
            /\ tw' = o.w
            /\ live' = LiveAfter(o, IF o.res = NULL THEN {}
                                    ELSE {[p |-> o.res, size |-> size]})
            /\ last' = LCall("alloc", NULL, size, 0, o, TRUE,
                             kind = "TESTING" /\ Injected(tw))
            /\ status' = o.st
    /\ steps' = steps + 1
    /\ UNCHANGED <<ndebug, arena_pages, kind, w, sh, tsh, gone>>

\* p = Allocator_zalloc(a, size)
LZalloc ==
    /\ LRunning
    /\ Cardinality(live) < MaxLive
    /\ \E size \in RecSizes :
       \E e \in REnvs(size, FALSE) :
         \E o \in {Allocator_zalloc(tw, size, e)} :
            /\ ~o.oom
            /\ tw' = o.w
            /\ live' = LiveAfter(o, IF o.res = NULL THEN {}
                                    ELSE {[p |-> o.res, size |-> size]})
            /\ last' = LCall("zalloc", NULL, size, 0, o, TRUE,
                             kind = "TESTING" /\ Injected(tw))
            /\ status' = o.st
    /\ steps' = steps + 1
    /\ UNCHANGED <<ndebug, arena_pages, kind, w, sh, tsh, gone>>

\* Allocator_free(a, p, size) with any pointer and any size
LFree ==
    /\ LRunning
    /\ \E c \in AnyArgs :
         \E o \in {Allocator_free(tw, c.p, c.size, RNoEnv)} :
            /\ tw' = o.w
            /\ live' = LiveAfter(o, {})
            /\ last' = LCall("free", c.p, c.size, 0, o, c.p = NULL \/ c \in live, FALSE)
            /\ status' = o.st
    /\ steps' = steps + 1
    /\ UNCHANGED <<ndebug, arena_pages, kind, w, sh, tsh, gone>>

\* q = Allocator_realloc(a, p, size, nsize) with any pointer and any size
LRealloc ==
    /\ LRunning
    /\ \E c \in AnyArgs, nsize \in RecSizes :
       \E e \in REnvs(nsize, TRUE) :
         \E o \in {Allocator_realloc(tw, c.p, c.size, nsize, e)} :
            /\ ~o.oom
            /\ c.p = NULL => Cardinality(live) < MaxLive
            /\ tw' = o.w
            /\ live' = LiveAfter(o, IF o.res = NULL THEN {}
                                    ELSE {[p |-> o.res, size |-> nsize]})
            /\ last' = LCall("realloc", c.p, c.size, nsize, o,
                             c.p = NULL \/ c \in live,
                             kind = "TESTING" /\ nsize > c.size /\ Injected(tw))
            /\ status' = o.st
    /\ steps' = steps + 1
    /\ UNCHANGED <<ndebug, arena_pages, kind, w, sh, tsh, gone>>

\* Allocator_free_all(a)
LFreeAll ==
    /\ LRunning
    /\ \E o \in {Allocator_free_all(tw, RNoEnv)} :
          /\ tw' = o.w
          /\ live' = LiveAfter(o, {})
          /\ last' = LCall("free_all", NULL, 0, 0, o, TRUE, FALSE)
          /\ status' = o.st
    /\ steps' = steps + 1
    /\ UNCHANGED <<ndebug, arena_pages, kind, w, sh, tsh, gone>>

\* recording_assert_all_freed(r) on the handle's recorder
LAssertAllFreed ==
    /\ LRunning
    /\ \E o \in {recording_assert_all_freed(tw, RNoEnv)} :
          /\ tw' = o.w
          /\ last' = LCall("assert_all_freed", NULL, 0, 0, o, TRUE, FALSE)
          /\ status' = o.st
    /\ steps' = steps + 1
    /\ UNCHANGED <<live, ndebug, arena_pages, kind, w, sh, tsh, gone>>

\* recording_cleanup(r) on the handle's recorder
LCleanup ==
    /\ LRunning
    /\ \E o \in {recording_cleanup(tw, RNoEnv)} :
          /\ tw' = o.w
          /\ last' = LCall("cleanup", NULL, 0, 0, o, TRUE, FALSE)
          /\ status' = o.st
    /\ steps' = steps + 1
    /\ UNCHANGED <<live, ndebug, arena_pages, kind, w, sh, tsh, gone>>

LNext ==
    \/ LAlloc \/ LZalloc \/ LFree \/ LRealloc \/ LFreeAll
    \/ LAssertAllFreed \/ LCleanup

SpecLedger == LInit /\ [][LNext]_vars

----------------------------------------------------------------------------
(* The ledger of the recording allocator.                                  *)

\* the ledger has a slot for the pointer, and the size recorded in the slot a
\* reverse scan finds
Tracked(r, data) == SlotsOf(r, data) # {}
RecordedSize(r, data) == r.allocation_sizes[Highest(SlotsOf(r, data))]

\* call c frees or reallocs a pointer that ledger r does not hold, or holds
\* with another size
Misuses(r, c) ==
    /\ c.op \in {"free", "realloc"}
    /\ c.ptr # NULL
    /\ Tracked(r, c.ptr) => c.size # RecordedSize(r, c.ptr)

HeldSlots(r) == {i \in 1..r.count : r.allocations[i] # NULL}
LedgerPairs(r) ==
    {[p |-> r.allocations[i], size |-> r.allocation_sizes[i]] : i \in HeldSlots(r)}

\* C23: after any sequence of valid alloc, zalloc, realloc and free calls on a
\* recording context, the heap granting every request, the (address, size)
\* pairs in the non-null slots below count are exactly the live allocations,
\* each once, with the size of its last alloc or realloc; allocations of size
\* 0 included.
C23_LedgerIsTheLiveAllocations ==
    (status = "ok" /\ last.plain) =>
        /\ LedgerPairs(tw.recorder) = live
        /\ Cardinality(HeldSlots(tw.recorder)) = Cardinality(live)

\* call c frees a pointer that ledger r holds, with the size recorded
MatchingFree(r, c) ==
    /\ c.op = "free"
    /\ c.ptr # NULL
    /\ Tracked(r, c.ptr)
    /\ c.size = RecordedSize(r, c.ptr)

\* C24: a free of a tracked pointer with its recorded size releases the
\* allocation to the heap, once, nulls its slot, and lowers count only over
\* trailing slots that are null: never past a slot that holds an allocation;
\* no slot but the matched one is modified.
C24_FreeFrame ==
    [][(MatchingFree(tw.recorder, last') /\ status' = "ok") =>
          LET r == tw.recorder
              r2 == tw'.recorder
              i == Highest(SlotsOf(r, last'.ptr))
          IN /\ tw.heap[last'.ptr].live /\ ~tw'.heap[last'.ptr].live
             /\ \A q \in RecPtrs \ {last'.ptr} : tw'.heap[q] = tw.heap[q]
             /\ r2.allocations[i] = NULL
             /\ r2.count <= r.count
             /\ \A j \in (r2.count + 1)..r.count : r2.allocations[j] = NULL
             /\ \A j \in (1..r.count) \ {i} :
                   /\ r2.allocations[j] = r.allocations[j]
                   /\ r2.allocation_sizes[j] = r.allocation_sizes[j]
             /\ r2.capacity = r.capacity]_vars

\* call c is a valid realloc to a size that is not 0 which the heap refused:
\* the recorder returned the null pointer, and not by injection
RefusedRealloc(c) ==
    /\ c.op = "realloc"
    /\ c.valid
    /\ c.nsize # 0
    /\ c.res = NULL
    /\ ~c.injected

\* C25: when the heap refuses the reallocation, recording_realloc returns the
\* null pointer and leaves the ledger as it was: the original allocation is
\* still tracked with its old size, and no entry with a null address and a
\* size that is not 0 has been added.
C25_ReallocFailureKeepsTheLedger ==
    [][(RefusedRealloc(last') /\ status' = "ok") =>
          /\ tw'.recorder = tw.recorder
          /\ last'.ptr # NULL =>
                /\ Tracked(tw'.recorder, last'.ptr)
                /\ RecordedSize(tw'.recorder, last'.ptr) = last'.size
          /\ \A i \in 1..tw'.recorder.count :
                tw'.recorder.allocations[i] = NULL =>
                    tw'.recorder.allocation_sizes[i] = 0]_vars

\* call c is a realloc, of NULL or of a pointer that ledger r holds with the
\* size passed, that returned a pointer
GrantedRealloc(r, c) ==
    /\ c.op = "realloc"
    /\ c.res # NULL
    /\ ~c.injected
    /\ c.ptr # NULL => (Tracked(r, c.ptr) /\ c.size = RecordedSize(r, c.ptr))

\* C26: a realloc of a tracked pointer with its recorded size that succeeds
\* vacates the old slot and appends exactly one entry (result, new) at the
\* tail, whether or not the address changed; for a null pointer it appends one
\* entry, as alloc does.  Afterwards exactly one slot refers to the result and
\* none to the old allocation.
C26_ReallocMovesTheEntry ==
    [][(GrantedRealloc(tw.recorder, last') /\ status' = "ok") =>
          LET r == tw.recorder
              r2 == tw'.recorder
              vacated == IF last'.ptr = NULL THEN {}
                         ELSE {Highest(SlotsOf(r, last'.ptr))}
          IN /\ r2.count >= 1
             /\ r2.count <= r.count + 1
             /\ r2.allocations[r2.count] = last'.res
             /\ r2.allocation_sizes[r2.count] = last'.nsize
             /\ SlotsOf(r2, last'.res) = {r2.count}
             /\ (last'.ptr # NULL /\ last'.res # last'.ptr) =>
                   SlotsOf(r2, last'.ptr) = {}
             /\ \A i \in vacated :
                   i = r2.count \/ (r2.allocations[i] = NULL /\ r2.allocation_sizes[i] = 0)
             /\ \A j \in (1..(r2.count - 1)) \ vacated :
                   /\ r2.allocations[j] = r.allocations[j]
                   /\ r2.allocation_sizes[j] = r.allocation_sizes[j]
             /\ last'.ptr = NULL => r2.count = r.count + 1]_vars

\* a tracked allocation was moved by realloc while another one was tracked
\* in a later slot
C26_Witness ==
    /\ status = "ok"
    /\ last.op = "realloc"
    /\ last.ptr # NULL
    /\ last.valid
    /\ last.res \notin {NULL, last.ptr}
    /\ tw.recorder.count = 3
    /\ SlotsOf(tw.recorder, last.res) = {3}
    /\ tw.recorder.allocations[1] = NULL
    /\ tw.recorder.allocations[2] \notin {NULL, last.res}

\* C27: after valid calls that the heap granted, recording_assert_all_freed
\* fails exactly when an allocation made through the recorder is still live,
\* whatever its size; it passes when every one has been freed, and after
\* free_all.
C27_AssertAllFreed ==
    [][(last'.op = "assert_all_freed" /\ last.plain) =>
          /\ status' = "abort" <=> live # {}
          /\ tw' = tw]_vars

\* C28: after valid calls, free_all releases every live allocation made
\* through the recorder to the heap, once, sets count to 0 and leaves capacity
\* and the arrays in place;
\* cleanup gives up the arrays, sets count and capacity to 0 and releases no
\* allocation.
C28_FreeAllAndCleanup ==
    [][/\ (last'.op = "free_all" /\ last.proper) =>
             /\ status' = "ok"
             /\ live' = {}
             /\ \A q \in RecPtrs : ~tw'.heap[q].live
             /\ tw'.recorder = [tw.recorder EXCEPT !.count = 0]
       /\ last'.op = "cleanup" =>
             /\ status' = "ok"
             /\ tw'.recorder.count = 0
             /\ tw'.recorder.capacity = 0
             /\ tw'.heap = tw.heap
             /\ live' = live]_vars

----------------------------------------------------------------------------
(* Fault injection of the testing allocator.                               *)

\* call c asks for more memory: alloc, zalloc, or realloc to a larger size
Growing(c) ==
    \/ c.op \in {"alloc", "zalloc"}
    \/ c.op = "realloc" /\ c.nsize > c.size

\* the number of bytes call c asks of the heap
Asked(c) == IF c.op = "realloc" THEN c.nsize ELSE c.size

\* C30: on a testing allocator with fail_at = N > 0 and the counter starting
\* at 0, the counter numbers the calls that ask for more memory (alloc, zalloc,
\* realloc with new > old); exactly the N-th of them returns the null pointer
\* and leaves ledger and heap as they were (for realloc, the original still
\* tracked); every other one succeeds when the heap grants it.  With
\* fail_at = 0 no call fails by injection.
C30_FaultInjection ==
    [][(kind = "TESTING" /\ tw.fail_at >= 0 /\ last'.op # "none") =>
          IF Growing(last')
          THEN LET n == tw.nallocs + 1
               IN /\ tw'.nallocs = n
                  /\ (tw.fail_at > 0 /\ n = tw.fail_at) =>
                        /\ last'.res = NULL
                        /\ status' = "ok"
                        /\ tw'.recorder = tw.recorder
                        /\ tw'.heap = tw.heap
                  /\ (n # tw.fail_at /\ ~last'.hf /\ status' = "ok" /\ Asked(last') > 0) =>
                        /\ last'.res # NULL
                        /\ tw'.heap[last'.res].live
                        /\ Tracked(tw'.recorder, last'.res)
          ELSE tw'.nallocs = tw.nallocs]_vars

\* with fail_at = 2, the third call that asked for memory was granted
C30_Witness ==
    /\ kind = "TESTING"
    /\ tw.fail_at = 2
    /\ tw.nallocs = 3
    /\ Growing(last)
    /\ last.res # NULL
    /\ status = "ok"

\* C31: on a testing allocator with fail_at = -N, N > 0, and the counter
\* starting at 0, the calls that ask for more memory (alloc, zalloc, realloc
\* with new > old) before the N-th succeed when the heap grants them, and the
\* N-th and every one after it returns the null pointer and leaves ledger and
\* heap as they were, while fail_at and the counter are not reset.
C31_FailFromNOn ==
    [][(kind = "TESTING" /\ tw.fail_at < 0 /\ last'.op # "none" /\ Growing(last')) =>
          LET n == tw.nallocs + 1
          IN /\ tw'.nallocs = n
             /\ tw'.fail_at = tw.fail_at
             /\ n >= -tw.fail_at =>
                   /\ last'.res = NULL
                   /\ last'.injected
                   /\ status' = "ok"
                   /\ tw'.recorder = tw.recorder
                   /\ tw'.heap = tw.heap
             /\ (n < -tw.fail_at /\ ~last'.hf /\ status' = "ok" /\ Asked(last') > 0) =>
                   /\ last'.res # NULL
                   /\ tw'.heap[last'.res].live
                   /\ Tracked(tw'.recorder, last'.res)]_vars

\* with fail_at = -2, the first call was granted and the third, like the
\* second, was failed
C31_Witness ==
    /\ kind = "TESTING"
    /\ tw.fail_at = -2
    /\ tw.nallocs = 3
    /\ Growing(last)
    /\ last.injected
    /\ last.res = NULL
    /\ tw.recorder.count = 1
    /\ status = "ok"

----------------------------------------------------------------------------
(* The call counter of the testing allocator.                              *)

\* C32: the counter of a testing allocator never goes down and counts the
\* calls that ask for more memory only: alloc, zalloc and realloc with
\* new > old raise it by exactly one, failed by injection or not; realloc
\* with new <= old, free and free_all leave it as it is and are never failed
\* by injection: they reach the recorder, which releases what free names,
\* empties the ledger on free_all, and returns a pointer from a realloc the
\* heap granted.
C32_CounterCountsGrowingCalls ==
    [][(kind = "TESTING" /\ last'.op # "none") =>
          /\ tw'.nallocs >= tw.nallocs
          /\ tw'.fail_at = tw.fail_at
          /\ IF Growing(last')
             THEN tw'.nallocs = tw.nallocs + 1
             ELSE /\ tw'.nallocs = tw.nallocs
                  /\ ~last'.injected
                  /\ (last'.op = "free" /\ last'.ptr # NULL /\ status' = "ok"
                        /\ Tracked(tw.recorder, last'.ptr)) =>
                        ~tw'.heap[last'.ptr].live
                  /\ (last'.op = "free_all" /\ status' = "ok") =>
                        tw'.recorder.count = 0
                  /\ (last'.op = "realloc" /\ ~last'.hf /\ status' = "ok" /\ last'.nsize > 0) =>
                        /\ last'.res # NULL
                        /\ Tracked(tw'.recorder, last'.res)]_vars

\* with fail_at = 2, the second call, a realloc that does not grow, was
\* neither counted nor failed
C32_Witness ==
    /\ kind = "TESTING"
    /\ tw.fail_at = 2
    /\ steps = 2
    /\ tw.nallocs = 1
    /\ last.op = "realloc"
    /\ last.ptr # NULL
    /\ last.nsize <= last.size
    /\ last.res # NULL
    /\ status = "ok"

----------------------------------------------------------------------------
(* The program: threads sharing one testing allocator.  Each entry point   *)
(* of testing_allocator.h is run one statement at a time, so that the      *)
(* statements of different threads interleave wherever the lock lets them. *)

MaxThreads == 2

MaxJobs == 2

Threads == 1..MaxThreads

\* the sizes the threads ask for, and the values of fail_at of their allocator
TSizes == {1, 2}
ThreadFailAts == {0, 2}

\* LOCK_T_lock returns once no other thread holds the lock, which the caller
\* then holds until its LOCK_T_unlock
LOCK_T_lock(x) == [x EXCEPT !.lock = TRUE]
LOCK_T_unlock(x) == [x EXCEPT !.lock = FALSE]

\* the entry points that serve allocation requests, and the statements of
\* every entry point in the order they are executed:
\*   lock, unlock: LOCK_T_lock(&ta->lock), LOCK_T_unlock(&ta->lock);
\*   load, store:  ++ta->nallocs, and the test that fails the call (goto done);
\*   call:         the call of the recorder;
\*   assert, cleanup: recording_assert_all_freed, recording_cleanup;
\*   zero:         nallocs = 0.
Requests == {"alloc", "zalloc", "realloc", "free", "free_all"}

\* testing_alloc and testing_zalloc taking the lock after the counter
TestingSteps_CountsUnlocked(op, grows) ==
    IF op \in {"alloc", "zalloc"}
    THEN <<"load", "store", "lock", "call", "unlock">>
    ELSE IF op = "realloc" /\ grows
    THEN <<"lock", "load", "store", "call", "unlock">>
    ELSE IF op \in {"realloc", "free", "free_all"}
    THEN <<"lock", "call", "unlock">>
    ELSE IF op = "testing_assert_all_freed"
    THEN <<"lock", "assert", "cleanup", "unlock">>
    ELSE IF op = "testing_reset"
    THEN <<"lock", "cleanup", "zero", "unlock">>
    ELSE <<"cleanup", "zero">>

TestingSteps(op, grows) ==
    IF op \in {"alloc", "zalloc"} \/ (op = "realloc" /\ grows)
    THEN <<"lock", "load", "store", "call", "unlock">>
    ELSE IF op \in {"realloc", "free", "free_all"}
    THEN <<"lock", "call", "unlock">>
    ELSE IF op = "testing_assert_all_freed"
    THEN <<"lock", "assert", "cleanup", "unlock">>
    ELSE IF op = "testing_reset"
    THEN <<"lock", "cleanup", "zero", "unlock">>
    ELSE \* reset_the_testing_allocator
         <<"cleanup", "zero">>

\* A thread: the entry point it is in (op, with its arguments and what the
\* heap will answer, e), the statement it is at (at, 0 outside any call), the
\* counter value it loaded (tmp), the result so far (res), whether the call was
\* failed by injection (inj) or refused by the heap (hf), and what the same
\* call returned when run alone at the moment the lock was taken (gres).
TIdle ==
    [op |-> "none", at |-> 0, ptr |-> NULL, size |-> 0, nsize |-> 0, e |-> RNoEnv,
     tmp |-> 0, res |-> NULL, inj |-> FALSE, hf |-> FALSE, gres |-> NULL]

TCallOf(op, ptr, size, nsize, e) ==
    [TIdle EXCEPT !.op = op, !.at = 1, !.ptr = ptr, !.size = size, !.nsize = nsize,
                  !.e = e]

Program(l) == TestingSteps(l.op, l.nsize > l.size)

\* the thread is inside an entry point
InCall(l) == l.at > 0

\* the thread has taken the lock and not released it
HoldsLock(l) ==
    /\ InCall(l)
    /\ \E i \in 1..(l.at - 1) : Program(l)[i] = "lock"

\* the call of the recorder an entry point makes
RecorderCall(x, l) ==
    IF l.op = "alloc" THEN recording_alloc(x, l.size, l.e)
    ELSE IF l.op = "zalloc" THEN recording_zalloc(x, l.size, l.e)
    ELSE IF l.op = "realloc" THEN recording_realloc(x, l.ptr, l.size, l.nsize, l.e)
    ELSE IF l.op = "free" THEN recording_free(x, l.ptr, l.size, l.e)
    ELSE recording_free_all(x, l.e)

\* the whole entry point, run with no other thread in between
AloneCall(x, l) ==
    IF l.op = "alloc" THEN testing_alloc(x, l.size, l.e)
    ELSE IF l.op = "zalloc" THEN testing_zalloc(x, l.size, l.e)
    ELSE IF l.op = "realloc" THEN testing_realloc(x, l.ptr, l.size, l.nsize, l.e)
    ELSE IF l.op = "free" THEN testing_free(x, l.ptr, l.size, l.e)
    ELSE testing_free_all(x, l.e)

\* The effect of one statement.
\*   en: the statement can be executed now; w, l, st: the context, the thread
\*   and the process after it
Effect(en, y, m, st) == [en |-> en, w |-> y, l |-> m, st |-> st]

\* ++ta->nallocs stored, and the test that fails the call: goto done
Stored(x, l, y, done) ==
    IF Injected([x EXCEPT !.nallocs = l.tmp])
    THEN Effect(TRUE, y, [l EXCEPT !.at = done, !.inj = TRUE], "ok")
    ELSE Effect(TRUE, y, [l EXCEPT !.at = @ + 1], "ok")

\* the recorder was called and came back with o
Called(l, o) ==
    Effect(~o.oom, o.w, [l EXCEPT !.at = @ + 1, !.res = o.res, !.hf = o.hf], o.st)

\* statement ins of thread record l on the shared context x; done is where
\* the label of that name is
Exec(x, l, ins, done) ==
    IF ins = "lock"
    THEN Effect(~x.lock, LOCK_T_lock(x), [l EXCEPT !.at = @ + 1], "ok")
    ELSE IF ins = "unlock"
    THEN Effect(TRUE, LOCK_T_unlock(x), [l EXCEPT !.at = @ + 1], "ok")
    ELSE IF ins = "load"
    THEN Effect(TRUE, x, [l EXCEPT !.at = @ + 1, !.tmp = x.nallocs], "ok")
    ELSE IF ins = "store"
    THEN Stored(x, l, [x EXCEPT !.nallocs = l.tmp + 1], done)
    ELSE IF ins = "call"
    THEN Called(l, RecorderCall(x, l))
    ELSE IF ins = "assert"
    THEN Effect(TRUE, x, [l EXCEPT !.at = @ + 1], recording_assert_all_freed(x, l.e).st)
    ELSE IF ins = "cleanup"
    THEN Effect(TRUE, recording_cleanup(x, l.e).w, [l EXCEPT !.at = @ + 1], "ok")
    ELSE \* THE_TestingAllocator.nallocs = 0
         Effect(TRUE, [x EXCEPT !.nallocs = 0], [l EXCEPT !.at = @ + 1], "ok")

\* what the heap answers in a call: whether it grants the request, whether
\* realloc moves, and, when the ledger has to grow, whether it grants that
TEnvs(re) ==
    { [RNoEnv EXCEPT !.ok = ok, !.moved = moved, !.lok = l[1], !.ub = l[2]] :
        ok \in BOOLEAN,
        moved \in IF re THEN BOOLEAN ELSE {FALSE},
        l \in IF LedgerFull(tw)
              THEN {<<TRUE, "segv">>, <<FALSE, "segv">>, <<FALSE, "wild">>}
              ELSE {<<TRUE, "segv">>} }

\* the allocations thread t holds, and the null pointer
HeldBy(t) == {c \in live : c.t = t}
NoneHeld(t) == [p |-> NULL, size |-> 0, t |-> t]

\* the record of the calls completed: the last one (op, res, gres, inj) and
\* the thread that made it (by), how
\* many of them asked for more memory (grown), how many were failed by
\* injection (failed), and whether the heap refused a realloc (refused)
TNoCall ==
    [op |-> "none", by |-> 0, res |-> NULL, gres |-> NULL, inj |-> FALSE,
     grown |-> 0, failed |-> 0, refused |-> FALSE]

TDone(t, l) ==
    [op |-> l.op, by |-> t, res |-> l.res, gres |-> l.gres, inj |-> l.inj,
     grown |-> last.grown + (IF Growing(l) THEN 1 ELSE 0),
     failed |-> last.failed + (IF l.inj THEN 1 ELSE 0),
     refused |-> last.refused \/ (l.op = "realloc" /\ l.hf)]

\* what the threads hold once thread t's call l has returned
HeldAfter(t, l) ==
    LET c == [p |-> l.ptr, size |-> l.size, t |-> t]
    IN IF l.op \in {"alloc", "zalloc"}
       THEN IF l.res = NULL THEN live ELSE live \cup {[p |-> l.res, size |-> l.size, t |-> t]}
       ELSE IF l.op = "free" THEN live \ {c}
       ELSE IF l.op = "realloc"
       THEN IF l.res = NULL THEN live
            ELSE (live \ {c}) \cup {[p |-> l.res, size |-> l.nsize, t |-> t]}
       ELSE IF l.op = "free_all" THEN {}
       ELSE live

\* an access to the ledger or the counter while another thread is inside an
\* entry point is a data race
Races(t, ins) ==
    /\ ins \notin {"lock", "unlock"}
    /\ \E u \in Threads \ {t} : InCall(sh[u])

\* the call is run alone, on the context the calls before it left, when the
\* lock is taken
RunsAlone(l, ins) == ins = "lock" /\ l.op \in Requests /\ tsh.st = "ok"

\* thread t, being l, executes its next statement
Statement(t, l) ==
    \E prog \in {Program(l)} :
    \E ins \in {prog[l.at]} :
    \E o \in {Exec(tw, l, ins, Len(prog))},
       g \in {IF RunsAlone(l, ins) THEN AloneCall(tsh.w, l) ELSE ROut(tsh.w, NULL)} :
    \E m \in {IF RunsAlone(l, ins) THEN [o.l EXCEPT !.gres = g.res] ELSE o.l} :
       /\ o.en
       /\ ~g.oom
       /\ tw' = o.w
       /\ status' \in (IF Races(t, ins) THEN {o.st, "segv", "wild"} ELSE {o.st})
       /\ tsh' = IF RunsAlone(l, ins) THEN [w |-> g.w, st |-> g.st] ELSE tsh
       /\ IF m.at > Len(prog)
          THEN /\ sh' = [sh EXCEPT ![t] = TIdle]
               /\ live' = HeldAfter(t, m)
               /\ last' = TDone(t, m)
          ELSE /\ sh' = [sh EXCEPT ![t] = m]
               /\ UNCHANGED <<live, last>>

TInit ==
    /\ ndebug \in BOOLEAN
    /\ arena_pages = ARENA_PAGES
    /\ w = EmptyArenaAllocator
    /\ sh = [t \in Threads |-> TIdle]
    /\ live = {}
    /\ last = TNoCall
    /\ status = "ok"
    /\ steps = 0
    /\ kind = "TESTING"
    /\ \E f \in ThreadFailAts : tw = NewTestingAllocator(f)
    /\ tsh = [w |-> tw, st |-> "ok"]
    /\ gone = {}

\* thread t enters an entry point and executes its first statement
TEnters(t, l) ==
    /\ status = "ok"
    /\ steps < MaxJobs
    /\ ~InCall(sh[t])
    /\ Statement(t, l)
    /\ steps' = steps + 1
    /\ UNCHANGED <<ndebug, arena_pages, kind, w, gone>>

\* Allocator_alloc(a, size)
TAlloc(t) ==
    /\ Cardinality(live) < MaxLive
    /\ \E size \in TSizes, e \in TEnvs(FALSE) :
          TEnters(t, TCallOf("alloc", NULL, size, 0, e))

\* Allocator_zalloc(a, size)
TZalloc(t) ==
    /\ Cardinality(live) < MaxLive
    /\ \E size \in TSizes, e \in TEnvs(FALSE) :
          TEnters(t, TCallOf("zalloc", NULL, size, 0, e))

\* Allocator_realloc(a, p, size, nsize) of something the thread holds, or of NULL
TRealloc(t) ==
    \E c \in HeldBy(t) \cup {NoneHeld(t)}, nsize \in TSizes, e \in TEnvs(TRUE) :
       /\ c.p = NULL => Cardinality(live) < MaxLive
       /\ TEnters(t, TCallOf("realloc", c.p, c.size, nsize, e))

\* Allocator_free(a, p, size) of something the thread holds, or of NULL
TFree(t) ==
    \E c \in HeldBy(t) \cup {NoneHeld(t)} :
       TEnters(t, TCallOf("free", c.p, c.size, 0, RNoEnv))

\* Allocator_free_all(a)
TFreeAll(t) ==
    /\ status = "ok"
    /\ TEnters(t, TCallOf("free_all", NULL, 0, 0, RNoEnv))

\* the next statement of a thread inside an entry point
TStep(t) ==
    /\ status = "ok"
    /\ InCall(sh[t])
    /\ Statement(t, sh[t])
    /\ UNCHANGED <<ndebug, arena_pages, kind, w, gone, steps>>

TNext ==
    \E t \in Threads :
       TAlloc(t) \/ TZalloc(t) \/ TRealloc(t) \/ TFree(t) \/ TFreeAll(t) \/ TStep(t)

SpecThreads == TInit /\ [][TNext]_vars

\* testing_assert_all_freed(), testing_reset() and reset_the_testing_allocator()
TAssertAllFreed(t) ==
    /\ status = "ok"
    /\ TEnters(t, TCallOf("testing_assert_all_freed", NULL, 0, 0, RNoEnv))

TReset(t) ==
    /\ status = "ok"
    /\ TEnters(t, TCallOf("testing_reset", NULL, 0, 0, RNoEnv))

TResetThe(t) ==
    /\ status = "ok"
    /\ TEnters(t, TCallOf("reset_the_testing_allocator", NULL, 0, 0, RNoEnv))

\* the threads of a test program, which also check for leaks and reset
SNext ==
    \/ TNext
    \/ \E t \in Threads : TAssertAllFreed(t) \/ TReset(t) \/ TResetThe(t)

SpecShared == TInit /\ [][SNext]_vars

----------------------------------------------------------------------------
(* The shared testing allocator under concurrent use.                      *)

\* no thread is inside an entry point
Quiescent == \A t \in Threads : ~InCall(sh[t])

\* C33: threads calling alloc, zalloc, realloc, free and free_all on the
\* shared testing allocator concurrently are linearizable: every call returns
\* what it returns, and the threads leave the ledger, the heap and the counter
\* as they are left, when the calls are run one after the other in the order
\* the lock was taken.  In particular, once n calls that ask for more memory
\* have returned the counter has grown by exactly n, the ledger holds each
\* allocation the threads hold once and nothing else, and with fail_at = N > 0
\* exactly one call was failed by injection if n >= N and none otherwise.
C33_Linearizable ==
    /\ last.res = last.gres
    /\ status # "ok" => tsh.st = status
    /\ Quiescent =>
          /\ tw = tsh.w
          /\ status = tsh.st
          /\ tw.nallocs = last.grown
          /\ tw.fail_at > 0 =>
                last.failed = IF last.grown >= tw.fail_at THEN 1 ELSE 0
          /\ (status = "ok" /\ ~last.refused) =>
                /\ LedgerPairs(tw.recorder) = {[p |-> c.p, size |-> c.size] : c \in live}
                /\ Cardinality(HeldSlots(tw.recorder)) = Cardinality(live)

\* two threads have each made a call asking for memory: one holds what it
\* was granted, the other's call was the second and was failed by injection
C33_Witness ==
    /\ Quiescent
    /\ tw.fail_at = 2
    /\ last.grown = 2
    /\ last.inj
    /\ last.failed = 1
    /\ \E c \in live : c.t # last.by
    /\ status = "ok"

\* C34: every routine that reads or writes the ledger or the counter of the
\* shared testing allocator (alloc, zalloc, realloc, free, free_all,
\* testing_assert_all_freed, testing_reset, reset_the_testing_allocator) holds
\* the lock from its first access to its last, so that no two threads are
\* inside such routines at once and no reset or cleanup of the ledger comes
\* between the statements of another thread's call.
C34_EveryRoutineHoldsTheLock ==
    /\ \A t \in Threads : InCall(sh[t]) => HoldsLock(sh[t])
    /\ \A t, u \in Threads : (InCall(sh[t]) /\ InCall(sh[u])) => t = u

----------------------------------------------------------------------------
(* The chain of blocks.                                                    *)

\* C35: between two free_all calls the chain of blocks only grows, and only
\* its head changes: alloc, zalloc, realloc and free unlink no block and
\* release none (every block stays allocated with its prev link, and the head
\* after the call is the head before it or a new block whose prev is the head
\* before it), so the number of blocks does not go down, and used of a block
\* that is not the head after the call is what it was before the call.
C35_ChainOnlyGrows ==
    [][last'.op \in {"alloc", "zalloc", "realloc", "free"} =>
          /\ \A b \in BlockIds :
                w.blk[b].live =>
                   /\ w'.blk[b].live
                   /\ w'.blk[b].prev = w.blk[b].prev
                   /\ b # w'.arena => w'.blk[b].used = w.blk[b].used
          /\ \/ w'.arena = w.arena
             \/ /\ w'.arena # NULL
                /\ ~w.blk[w'.arena].live
                /\ w'.blk[w'.arena].live
                /\ w'.blk[w'.arena].prev = w.arena]_vars

\* there are two blocks, and the call was a free of an allocation in the one
\* that is no longer the head
C35_Witness ==
    /\ Len(ArenaChain(w)) = 2
    /\ last.op = "free"
    /\ last.size > 0
    /\ last.ptr.k = "arena"
    /\ last.ptr.id # w.arena
    /\ w.blk[last.ptr.id].used > 0
    /\ status = "ok"

----------------------------------------------------------------------------
(* A build with blocks of 4096 bytes.                                      *)

\* the step is B = alloc(200), the second call on the arena, after
\* A = alloc(4000), both granted
AllocsAThenB ==
    /\ arena_pages = 1
    /\ steps = 1 /\ status = "ok"
    /\ last.op = "alloc" /\ last.size = 4000 /\ last.res # NULLPTR
    /\ steps' = 2 /\ status' = "ok"
    /\ last'.op = "alloc" /\ last'.size = 200 /\ last'.res # NULLPTR

----------------------------------------------------------------------------
(* Memory safety of the arena.                                             *)

\* what the caller holds in the blocks: the allocations of a size other than
\* 0 whose address is in a block's buffer
SmallLive == {a \in live : a.p.k = "arena" /\ a.size > 0}

\* C37: whatever the caller of an arena allocates, and frees or reallocs
\* with the sizes granted, the allocations of non-zero size it holds in the
\* blocks lie each within the buffer of one block that is allocated, and no
\* two of them share a byte: no call returns bytes of an allocation that is
\* still live.
C37_LiveRangesDisjoint ==
    kind = "ARENA" =>
       /\ \A a \in SmallLive :
             /\ w.blk[a.p.id].live
             /\ a.p.off + a.size <= ARENA_BUFFER_SIZE
       /\ \A a, b \in SmallLive :
             (a # b /\ a.p.id = b.p.id) =>
                \/ a.p.off + a.size <= b.p.off
                \/ b.p.off + b.size <= a.p.off

\* C38: in every state of an arena, used of every block is a multiple of 8
\* between 0 and ARENA_BUFFER_SIZE (free and a shrinking realloc do not take
\* it below 0, alloc and a growing realloc not beyond the buffer), and every
\* address returned from a block is a multiple of 8 bytes from the start of
\* the buffer.
C38_UsedAlignedAndBounded ==
    kind = "ARENA" =>
       /\ \A b \in BlockIds :
             w.blk[b].live =>
                /\ w.blk[b].used % 8 = 0
                /\ w.blk[b].used >= 0
                /\ w.blk[b].used <= ARENA_BUFFER_SIZE
       /\ last.res.k = "arena" =>
             /\ last.res.off % 8 = 0
             /\ last.res.off >= 0
             /\ last.res.off <= ARENA_BUFFER_SIZE
       /\ \A a \in live : a.p.k = "arena" => a.p.off % 8 = 0

\* an alloc of 5 bytes was served 8 bytes behind another allocation of 5
\* bytes that the caller still holds
C38_Witness ==
    /\ kind = "ARENA"
    /\ last.op = "alloc"
    /\ last.size = 5
    /\ last.res.k = "arena"
    /\ last.res.off = 8
    /\ \E a \in live : a.size = 5 /\ a.p = ArenaPtr(last.res.id, 0)
    /\ w.blk[w.arena].used = 16
    /\ status = "ok"

----------------------------------------------------------------------------
(* The list of big allocations and released memory.                        *)

\* C39: the arena's big list never refers to released memory and never
\* releases twice: in every reachable state the sentinel's prev link is null
\* (the assertion of free_all holds), the sentinel's next link is null or a
\* live big allocation, as is every node the walk of free_all visits from
\* there, and free_all has never handed the heap an allocation that an
\* earlier free or realloc released.
C39_BigListNeverDangles ==
    kind = "ARENA" =>
       /\ w.big_allocations.prev = NULL
       /\ w.big_allocations.next # NULL => w.big[w.big_allocations.next].live
       /\ \A n \in Range(BigList(w)) : w.big[n].live
       /\ status # "uaf"
       /\ last.op = "free_all" => status = "ok"

\* a realloc moved a big allocation: the heap released the old address, and
\* the sentinel points at the new one
C39_Witness ==
    /\ kind = "ARENA"
    /\ last.op = "realloc"
    /\ last.ptr.k = "big"
    /\ last.res.k = "big"
    /\ last.res # last.ptr
    /\ ~w.big[last.ptr.id].live
    /\ w.big_allocations.next = last.res.id
    /\ status = "ok"

\* C40: for every live big allocation, the size stored in its header is the
\* rounded size of its most recent alloc or realloc, which is the size the
\* heap last granted it less the header, so that free_all releases it with
\* the size the heap holds for it; also after a realloc from big to big.
C40_HeaderSizeIsCurrent ==
    kind = "ARENA" =>
       /\ \A n \in BigIds :
             w.big[n].live => w.big[n].size + SIZEOF_BIG = w.big[n].hsize
       /\ \A a \in live :
             (a.p.k = "big" /\ w.big[a.p.id].live) =>
                w.big[a.p.id].size = Round8(a.size)

====
